---- MODULE Spec2Model ----
(***************************************************************************)
(* ChartExtractor-rs: rectangle and point geometry, non-maximum            *)
(* suppression, image tiling, padding, the detector driver of digitize.rs, *)
(* the matching side of coherent point drift, and the thin-plate-spline    *)
(* transform.                                                              *)
(*                                                                         *)
(* Real-valued quantities (f32 coordinates, confidences, thresholds) are   *)
(* modelled by integers and by integer fractions <<num, den>>; a           *)
(* comparison between two quotients is done by cross-multiplication.  NaN  *)
(* is a value where the code compares what it is given (constructors,      *)
(* the registration loop, the matching); no confidence is NaN.  Each group *)
(* of functions has its own specification (SpecNMS, SpecTiling,            *)
(* SpecPadding, SpecRun, SpecBox, SpecPoint, SpecCPD, SpecMatching,        *)
(* SpecFilter, SpecTps); the variables of the other groups stay idle in    *)
(* it.                                                                     *)
(***************************************************************************)
EXTENDS Integers, Sequences, FiniteSets, TLC

VARIABLES
    \* ---- non_maximum_suppression ----
    nms_input,        \* the Vec<Detection<BoundingBox>> handed to NMS
    nms_threshold,    \* iou_threshold, a fraction <<num, den>>
    nms_result,       \* outcome of the call on nms_input
    nms_again,        \* outcome of a second call on the first call's output
    nms_pc,           \* "input" | "called" | "recalled"
    \* ---- image_utils/tiling.rs ----
    tl_shape,         \* lengths of axes 2 and 3 of the (1, 3, _, _) image array
    tl_tile_size,     \* tile_size: u32
    tl_proportion,    \* OverlapProportion as <<numerator, denominator>>
    tl_validation,    \* what validate_tiling_parameters returned
    tl_tiles,         \* what tile_image returned
    tl_new_size,      \* what find_smallest_img_size_large_enough_to_tile returned
    tl_pc,            \* "start" | "validated" | "tiled" | "sized"
    \* ---- image_utils/padding.rs ----
    pad_image,        \* the RgbImage to pad: [width, height, pixels]
    pad_new_width,
    pad_new_height,
    pad_validation,   \* what validate_padding_parameters returned
    pad_result,       \* what pad_right_bottom_img_rbg8 returned
    pad_pc,           \* "start" | "validated" | "padded"
    \* ---- digitization/digitize.rs: run_yolov11_bounding_box_model ----
    run_image,        \* the image array: [d2, d3, data]
    run_tile_size,    \* model_parameters.tile_size
    run_proportion,   \* model_parameters.overlap_proportion
    run_adaptive,     \* use_adaptive_padding
    run_detector,     \* which detector the model is
    run_padded,       \* outcome of the padding block (lines 125-132)
    run_tiled,        \* the array handed to tile_and_predict
    run_tiles,        \* the grid tile_image returned inside tile_and_predict
    run_inferred,     \* number of tiles the detector has been run on
    run_detections,   \* the rebased detections collected so far
    run_result,       \* what the call returned
    run_calls,        \* the calls tile_and_predict has made, in order
    run_pc,           \* "start" | "predict" | "infer" | "done" | "panic"
    \* ---- annotations/bounding_box.rs, bounding_box_with_keypoint.rs ----
    bb_call,          \* the last call made on the rectangle's interface
    bb_result,        \* what the constructor returned
    bb_rect,          \* the rectangle held: <<>> or <<rectangle>>
    bb_other,         \* the second operand of the measurement
    bb_measure,       \* the areas and the IoU measured, in both argument orders
    bb_pc,            \* "start" | "built" | "written" | "measured"
    \* ---- annotations/point.rs ----
    pt_a,             \* a Point: [x, y], each an f32 as [sign, abs]
    pt_b,             \* a second Point
    pt_eq,            \* what pt_a == pt_b returned: <<>> or <<BOOLEAN>>
    pt_hash,          \* what the two calls of hash fed to the hasher
    pt_pc,            \* "start" | "compared" | "hashed"
    \* ---- registration/coherent_point_drift.rs: register ----
    cpd_max_iterations,
    cpd_tolerance,
    cpd_variance,
    cpd_change_in_variance,
    cpd_iteration,    \* the local `iteration` of register
    cpd_pc,           \* "new" | "loop" | "returned" | "panic"
    \* ---- registration/coherent_point_drift.rs: generate_matching ----
    gm_probability,   \* probability_of_match: [rows, cols, at]
    gm_matching,      \* what generate_matching returned
    gm_pc,            \* "start" | "matched"
    \* ---- digitization/digitize.rs: filter_detections_with_cpd ----
    flt_detections,   \* the detections given
    flt_pairs,        \* the names of `pairs`, in the order the HashMap gave them
    flt_probability,  \* probability_of_match after cpd.register()
    flt_matches,      \* what cpd.generate_matching() returned
    flt_result,       \* what the call returned
    flt_pc,           \* "start" | "registered" | "matched" | "done" | "panic"
    \* ---- registration/thin_plate_splines.rs ----
    tps_source,       \* TpsTransform.source: a sequence of Points
    tps_destination,  \* TpsTransform.destination
    tps_w_matrix,     \* TpsTransform.w_matrix, or the abort of the constructor
    tps_call,         \* the last call made on the transform
    tps_result,       \* what that call returned
    tps_pc            \* "start" | "built" | "panic"

nms_vars == <<nms_input, nms_threshold, nms_result, nms_again, nms_pc>>
tl_vars == <<tl_shape, tl_tile_size, tl_proportion, tl_validation, tl_tiles,
             tl_new_size, tl_pc>>
pad_vars == <<pad_image, pad_new_width, pad_new_height, pad_validation, pad_result,
              pad_pc>>
run_vars == <<run_image, run_tile_size, run_proportion, run_adaptive, run_detector,
              run_padded, run_tiled, run_tiles, run_inferred, run_detections,
              run_result, run_calls, run_pc>>
bb_vars == <<bb_call, bb_result, bb_rect, bb_other, bb_measure, bb_pc>>
pt_vars == <<pt_a, pt_b, pt_eq, pt_hash, pt_pc>>
cpd_vars == <<cpd_max_iterations, cpd_tolerance, cpd_variance, cpd_change_in_variance,
              cpd_iteration, cpd_pc>>
gm_vars == <<gm_probability, gm_matching, gm_pc>>
flt_vars == <<flt_detections, flt_pairs, flt_probability, flt_matches, flt_result, flt_pc>>
tps_vars == <<tps_source, tps_destination, tps_w_matrix, tps_call, tps_result, tps_pc>>
vars == <<nms_vars, tl_vars, pad_vars, run_vars, bb_vars, pt_vars, cpd_vars, gm_vars,
          flt_vars, tps_vars>>

\* What the actions of one group leave alone.
outside_nms == <<tl_vars, pad_vars, run_vars, bb_vars, pt_vars,
                 cpd_vars, gm_vars, flt_vars, tps_vars>>
outside_tiling == <<nms_vars, pad_vars, run_vars, bb_vars, pt_vars,
                    cpd_vars, gm_vars, flt_vars, tps_vars>>
outside_padding == <<nms_vars, tl_vars, run_vars, bb_vars, pt_vars,
                     cpd_vars, gm_vars, flt_vars, tps_vars>>
outside_run == <<nms_vars, tl_vars, pad_vars, bb_vars, pt_vars,
                 cpd_vars, gm_vars, flt_vars, tps_vars>>
outside_bb == <<nms_vars, tl_vars, pad_vars, run_vars, pt_vars,
                cpd_vars, gm_vars, flt_vars, tps_vars>>
outside_pt == <<nms_vars, tl_vars, pad_vars, run_vars, bb_vars,
                cpd_vars, gm_vars, flt_vars, tps_vars>>
outside_cpd == <<nms_vars, tl_vars, pad_vars, run_vars, bb_vars,
                 pt_vars, gm_vars, flt_vars, tps_vars>>
outside_gm == <<nms_vars, tl_vars, pad_vars, run_vars, bb_vars,
                pt_vars, cpd_vars, flt_vars, tps_vars>>
outside_flt == <<nms_vars, tl_vars, pad_vars, run_vars, bb_vars,
                 pt_vars, cpd_vars, gm_vars, tps_vars>>
outside_tps == <<nms_vars, tl_vars, pad_vars, run_vars, bb_vars,
                 pt_vars, cpd_vars, gm_vars, flt_vars>>

(***************************************************************************)
(* Bounds of the model.                                                    *)
(***************************************************************************)
MaxDets == 3
MaxDim == 8        \* largest image width / height
MaxTile == 6       \* largest tile_size
MaxImgDim == 2     \* largest width / height of an image given to padding
MaxPadDim == 3     \* largest new_width / new_height
MaxCoord == 3      \* largest coordinate given to a rectangle's constructor
MaxAbs == 1        \* largest magnitude of a Point's coordinate
MaxIterations == 3 \* largest max_iterations given to the registration
MaxPoints == 2     \* largest number of rows / columns of probability_of_match
MaxFilterDets == 2 \* largest number of detections given to the filter

Categories == {"a", "b"}
Confidences == {1, 2}
Thresholds == {<<1, 8>>, <<1, 4>>, <<1, 2>>}

(***************************************************************************)
(* annotations/bounding_box.rs                                             *)
(***************************************************************************)

\* The f32 value NaN, written as a number that no input and no computation
\* of the model gives.
NaN == -1000

\* x > y and x <= y on f32: false as soon as an operand is NaN.
FGt(x, y) == x # NaN /\ y # NaN /\ x > y
FLe(x, y) == x # NaN /\ y # NaN /\ x <= y

\* BoundingBox::new: the two ordering checks, left/right first.
BoundingBoxNew(l, t, r, b, c) ==
    IF FGt(l, r) THEN [ok |-> FALSE, err |-> "InvalidLeftRight", left |-> l, right |-> r]
    ELSE IF FGt(t, b)
    THEN [ok |-> FALSE, err |-> "InvalidTopBottom", top |-> t, bottom |-> b]
    ELSE [ok |-> TRUE,
          box |-> [left |-> l, top |-> t, right |-> r, bottom |-> b, category |-> c]]

\* BoundingBoxWithKeypoint::new: the rectangle is built by BoundingBox::new
\* and its error returned by `?`.  The keypoint-rectangle is written with
\* the fields of its rectangle beside the keypoint: every method of its
\* BoundingBoxGeometry forwards to the rectangle.
BoundingBoxWithKeypointNew(l, t, r, b, keypoint_x, keypoint_y, c) ==
    LET bounding_box == BoundingBoxNew(l, t, r, b, c)
    IN  IF bounding_box.ok
        THEN [ok |-> TRUE,
              box |-> [left |-> l, top |-> t, right |-> r, bottom |-> b, category |-> c,
                       keypoint |-> [x |-> keypoint_x, y |-> keypoint_y]]]
        ELSE bounding_box

Max2(x, y) == IF x >= y THEN x ELSE y
Min2(x, y) == IF x <= y THEN x ELSE y

area(a) == (a.right - a.left) * (a.bottom - a.top)

\* The product of the differences without the constructor's checks.
intersection_area_unchecked(a, b) ==
    (Min2(a.right, b.right) - Max2(a.left, b.left))
        * (Min2(a.bottom, b.bottom) - Max2(a.top, b.top))

intersection_area(a, b) ==
    LET intersection_box ==
            BoundingBoxNew(Max2(a.left, b.left), Max2(a.top, b.top),
                           Min2(a.right, b.right), Min2(a.bottom, b.bottom), "")
    IN  IF intersection_box.ok THEN area(intersection_box.box) ELSE 0

union_area(a, b) == area(a) + area(b) - intersection_area(a, b)

\* The same function with the test made on the intersection.
intersection_over_union_empty(a, b) ==
    IF intersection_area(a, b) = 0
    THEN [panic |-> TRUE, num |-> 0, den |-> 0]
    ELSE [panic |-> FALSE, num |-> intersection_area(a, b), den |-> union_area(a, b)]

\* intersection_over_union: the quotient is kept as <<intersection, union>>;
\* a zero union is the panic of the source.
intersection_over_union(a, b) ==
    IF union_area(a, b) = 0
    THEN [panic |-> TRUE, num |-> 0, den |-> 0]
    ELSE [panic |-> FALSE, num |-> intersection_area(a, b), den |-> union_area(a, b)]

\* iou > iou_threshold, for iou = num/den (den > 0) and threshold = th[1]/th[2].
IouExceeds(iou, th) == iou.num * th[2] > th[1] * iou.den

(***************************************************************************)
(* The detections the model draws its inputs from.  Every box satisfies    *)
(* the constructor's checks.  The first three overlap in a chain: IoU 1/3  *)
(* between the first and second and between the second and third, 1/7      *)
(* between the first and third.  The fourth has zero area.                 *)
(***************************************************************************)
BoxCoords == {<<0, 0, 2, 2>>, <<1, 0, 3, 2>>, <<1, 1, 3, 3>>, <<1, 1, 1, 2>>}

Boxes == {BoundingBoxNew(q[1], q[2], q[3], q[4], c).box : q \in BoxCoords, c \in Categories}

\* Detection<BoundingBox>; pos records where the detection stood in the
\* caller's list, so that the order of equal detections can be observed.
MakeDetection(bx, conf, p) ==
    [annotation |-> bx, confidence |-> conf, pos |-> p]

(***************************************************************************)
(* object_detection/object_detection_utils.rs: non_maximum_suppression     *)
(***************************************************************************)

\* slice::sort_by with |a, b| b.confidence.partial_cmp(&a.confidence): a
\* stable sort, descending.  An element is placed behind every element that
\* does not compare greater than it.
RECURSIVE InsertByConfidence(_, _)
InsertByConfidence(sorted, d) ==
    IF sorted = <<>> THEN <<d>>
    ELSE IF Head(sorted).confidence >= d.confidence
         THEN <<Head(sorted)>> \o InsertByConfidence(Tail(sorted), d)
         ELSE <<d>> \o sorted

RECURSIVE SortAscending(_)
SortAscending(dets) ==
    IF dets = <<>> THEN <<>>
    ELSE LET rest == SortAscending(Tail(dets))
             d == Head(dets)
             RECURSIVE Ins(_)
             Ins(s) == IF s = <<>> THEN <<d>>
                       ELSE IF Head(s).confidence < d.confidence
                            THEN <<Head(s)>> \o Ins(Tail(s))
                            ELSE <<d>> \o s
         IN  Ins(rest)

RECURSIVE SortByConfidence(_)
SortByConfidence(dets) ==
    IF dets = <<>> THEN <<>>
    ELSE InsertByConfidence(SortByConfidence(SubSeq(dets, 1, Len(dets) - 1)),
                            dets[Len(dets)])

\* The same loop without the category comparison of lines 29-31.
RECURSIVE ScanOthersAnyCategory(_, _, _, _, _)
ScanOthersAnyCategory(dets, th, cur, oth, st) ==
    IF st.panicked \/ oth > Len(dets) THEN st
    ELSE IF st.mask[oth] THEN ScanOthersAnyCategory(dets, th, cur, oth + 1, st)
    ELSE LET iou == intersection_over_union(dets[cur].annotation, dets[oth].annotation)
         IN  IF iou.panic THEN [st EXCEPT !.panicked = TRUE]
             ELSE IF IouExceeds(iou, th)
                  THEN ScanOthersAnyCategory(dets, th, cur, oth + 1,
                                  [st EXCEPT !.mask[oth] = TRUE])
                  ELSE ScanOthersAnyCategory(dets, th, cur, oth + 1, st)

\* The inner loop looking at the next detection only.
ScanOthersNextOnly(dets, th, cur, oth, st) ==
    IF st.panicked \/ oth > Len(dets) THEN st
    ELSE IF st.mask[oth] THEN st
    ELSE IF dets[cur].annotation.category # dets[oth].annotation.category THEN st
    ELSE LET iou == intersection_over_union(dets[cur].annotation, dets[oth].annotation)
         IN  IF iou.panic THEN [st EXCEPT !.panicked = TRUE]
             ELSE IF IouExceeds(iou, th) THEN [st EXCEPT !.mask[oth] = TRUE]
                  ELSE st

\* The inner loop (lines 25-38) for one current_index, from position oth
\* on.  st = [panicked, mask]; mask is detections_to_remove.
RECURSIVE ScanOthers(_, _, _, _, _)
ScanOthers(dets, th, cur, oth, st) ==
    IF st.panicked \/ oth > Len(dets) THEN st
    ELSE IF st.mask[oth] THEN ScanOthers(dets, th, cur, oth + 1, st)
    ELSE IF dets[cur].annotation.category # dets[oth].annotation.category
         THEN ScanOthers(dets, th, cur, oth + 1, st)
    ELSE LET iou == intersection_over_union(dets[cur].annotation, dets[oth].annotation)
         IN  IF iou.panic THEN [st EXCEPT !.panicked = TRUE]
             ELSE IF IouExceeds(iou, th)
                  THEN ScanOthers(dets, th, cur, oth + 1,
                                  [st EXCEPT !.mask[oth] = TRUE])
                  ELSE ScanOthers(dets, th, cur, oth + 1, st)

\* The outer loop (line 24): every index is a current_index, whether or
\* not its own flag is set.
RECURSIVE ScanAll(_, _, _, _)
ScanAll(dets, th, cur, st) ==
    IF st.panicked \/ cur > Len(dets) THEN st
    ELSE ScanAll(dets, th, cur + 1, ScanOthers(dets, th, cur, cur + 1, st))

\* retain with the predicate inverted: keeps the flagged detections.
RECURSIVE RetainFlagged(_, _)
RetainFlagged(dets, mask) ==
    IF dets = <<>> THEN <<>>
    ELSE IF Head(mask) THEN <<Head(dets)>> \o RetainFlagged(Tail(dets), Tail(mask))
         ELSE RetainFlagged(Tail(dets), Tail(mask))

\* Vec::retain with the drop iterator (lines 40-41): keeps order.
RECURSIVE Retain(_, _)
Retain(dets, mask) ==
    IF dets = <<>> THEN <<>>
    ELSE IF Head(mask) THEN Retain(Tail(dets), Tail(mask))
         ELSE <<Head(dets)>> \o Retain(Tail(dets), Tail(mask))

non_maximum_suppression(dets, th) ==
    LET sorted == SortByConfidence(dets)
        st == ScanAll(sorted, th, 1,
                      [panicked |-> FALSE, mask |-> [k \in 1..Len(sorted) |-> FALSE]])
    IN  IF st.panicked THEN [status |-> "panic", dets |-> <<>>]
        ELSE [status |-> "ok", dets |-> Retain(sorted, st.mask)]

NoResult == [status |-> "none", dets |-> <<>>]

(***************************************************************************)
(* Specification of the NMS calls.                                         *)
(***************************************************************************)
TilingIdle ==
    /\ tl_shape = [d2 |-> 0, d3 |-> 0]
    /\ tl_tile_size = 0
    /\ tl_proportion = <<1, 2>>
    /\ tl_validation = [kind |-> "NotCalled"]
    /\ tl_tiles = [status |-> "none"]
    /\ tl_new_size = <<>>
    /\ tl_pc = "idle"

\* RgbImage::new(width, height): every pixel is Rgb([0, 0, 0]).
Black == <<0, 0, 0>>
Colours == {Black, <<255, 0, 0>>}
PixelsOf(width, height) == (0..(width - 1)) \X (0..(height - 1))
RgbImageNew(width, height) ==
    [width |-> width, height |-> height,
     pixels |-> [q \in PixelsOf(width, height) |-> Black]]

PaddingIdle ==
    /\ pad_image = RgbImageNew(0, 0)
    /\ pad_new_width = 0
    /\ pad_new_height = 0
    /\ pad_validation = [kind |-> "NotCalled"]
    /\ pad_result = [status |-> "none"]
    /\ pad_pc = "idle"

RunIdle ==
    /\ run_image = [d2 |-> 0, d3 |-> 0, data |-> <<>>]
    /\ run_tile_size = 0
    /\ run_proportion = <<1, 2>>
    /\ run_adaptive = FALSE
    /\ run_detector = "none"
    /\ run_padded = [status |-> "none"]
    /\ run_tiled = [status |-> "none"]
    /\ run_tiles = <<>>
    /\ run_inferred = 0
    /\ run_detections = <<>>
    /\ run_result = [status |-> "none"]
    /\ run_calls = <<>>
    /\ run_pc = "idle"

NmsIdle ==
    /\ nms_input = <<>>
    /\ nms_threshold = <<1, 2>>
    /\ nms_result = NoResult
    /\ nms_again = NoResult
    /\ nms_pc = "idle"

BoxIdle ==
    /\ bb_call = [fn |-> "none"]
    /\ bb_result = [status |-> "none"]
    /\ bb_rect = <<>>
    /\ bb_other = <<>>
    /\ bb_measure = [status |-> "none"]
    /\ bb_pc = "idle"

PointIdle ==
    /\ pt_a = [x |-> [sign |-> 0, abs |-> 0], y |-> [sign |-> 0, abs |-> 0]]
    /\ pt_b = [x |-> [sign |-> 0, abs |-> 0], y |-> [sign |-> 0, abs |-> 0]]
    /\ pt_eq = <<>>
    /\ pt_hash = <<>>
    /\ pt_pc = "idle"

CpdIdle ==
    /\ cpd_max_iterations = 0
    /\ cpd_tolerance = 0
    /\ cpd_variance = 0
    /\ cpd_change_in_variance = 0
    /\ cpd_iteration = 0
    /\ cpd_pc = "idle"

MatchingIdle ==
    /\ gm_probability = [rows |-> 0, cols |-> 0, at |-> <<>>]
    /\ gm_matching = <<>>
    /\ gm_pc = "idle"

FilterIdle ==
    /\ flt_detections = <<>>
    /\ flt_pairs = <<>>
    /\ flt_probability = [rows |-> 0, cols |-> 0, at |-> <<>>]
    /\ flt_matches = <<>>
    /\ flt_result = [status |-> "none"]
    /\ flt_pc = "idle"

TpsIdle ==
    /\ tps_source = <<>>
    /\ tps_destination = <<>>
    /\ tps_w_matrix = [status |-> "none"]
    /\ tps_call = [fn |-> "none"]
    /\ tps_result = [status |-> "none"]
    /\ tps_pc = "idle"

\* Every group of functions but the one the specification is about is idle.
AllIdleBut(group) ==
    /\ group # "nms" => NmsIdle
    /\ group # "tiling" => TilingIdle
    /\ group # "padding" => PaddingIdle
    /\ group # "run" => RunIdle
    /\ group # "bb" => BoxIdle
    /\ group # "pt" => PointIdle
    /\ group # "cpd" => CpdIdle
    /\ group # "gm" => MatchingIdle
    /\ group # "flt" => FilterIdle
    /\ group # "tps" => TpsIdle

InitNMS ==
    /\ AllIdleBut("nms")
    /\ nms_input = <<>>
    /\ nms_threshold \in Thresholds
    /\ nms_result = NoResult
    /\ nms_again = NoResult
    /\ nms_pc = "input"

\* The caller appends one detection to the list it will hand to NMS.
PushDetection ==
    /\ nms_pc = "input"
    /\ Len(nms_input) < MaxDets
    /\ \E bx \in Boxes, conf \in Confidences :
          nms_input' = Append(nms_input, MakeDetection(bx, conf, Len(nms_input) + 1))
    /\ UNCHANGED <<nms_threshold, nms_result, nms_again, nms_pc, outside_nms>>

CallNMS ==
    /\ nms_pc = "input"
    /\ nms_result' = non_maximum_suppression(nms_input, nms_threshold)
    /\ nms_pc' = "called"
    /\ UNCHANGED <<nms_input, nms_threshold, nms_again, outside_nms>>

\* NMS applied to its own output.
RecallNMS ==
    /\ nms_pc = "called"
    /\ nms_result.status = "ok"
    /\ nms_again' = non_maximum_suppression(nms_result.dets, nms_threshold)
    /\ nms_pc' = "recalled"
    /\ UNCHANGED <<nms_input, nms_threshold, nms_result, outside_nms>>

NextNMS == PushDetection \/ CallNMS \/ RecallNMS

SpecNMS == InitNMS /\ [][NextNMS]_vars

(***************************************************************************)
(* image_utils/tiling.rs                                                   *)
(*                                                                         *)
(* The model's inputs keep tile_size * numerator far below 2^32, so the    *)
(* u32 product is the integer product here.                                *)
(***************************************************************************)
Proportions == {<<1, 2>>, <<1, 3>>, <<2, 3>>, <<2, 5>>}

NoTilingError == [kind |-> "None"]

\* A remainder or quotient by zero aborts the call.
DivisionPanic == [kind |-> "Panic"]

\* The same checks with the divisibility checks of the image put before
\* the divisibility check of the tile size.
validate_tiling_parameters_reordered(proportion, tile_size, image_width, image_height) ==
    IF tile_size > image_width \/ tile_size > image_height
    THEN [kind |-> "InvalidTileSize", tile_size |-> tile_size,
          image_width |-> image_width, image_height |-> image_height]
    ELSE IF proportion[2] = 0 \/ (tile_size * proportion[1]) \div proportion[2] = 0
    THEN DivisionPanic
    ELSE LET stride == (tile_size * proportion[1]) \div proportion[2]
         IN  IF (image_width - tile_size) % stride # 0
                \/ (image_height - tile_size) % stride # 0
             THEN [kind |-> "UnevenImageDivision", image_height |-> image_height,
                   image_width |-> image_width, tile_size |-> tile_size,
                   overlap_proportion |-> proportion]
             ELSE IF (tile_size * proportion[1]) % proportion[2] # 0
             THEN [kind |-> "IncompatibleProportionWithTileSize",
                   tile_size |-> tile_size, overlap_proportion |-> proportion]
             ELSE NoTilingError

validate_tiling_parameters(proportion, tile_size, image_width, image_height) ==
    IF tile_size > image_width \/ tile_size > image_height
    THEN [kind |-> "InvalidTileSize", tile_size |-> tile_size,
          image_width |-> image_width, image_height |-> image_height]
    ELSE IF proportion[2] = 0 THEN DivisionPanic
    ELSE IF (tile_size * proportion[1]) % proportion[2] # 0
    THEN [kind |-> "IncompatibleProportionWithTileSize",
          tile_size |-> tile_size, overlap_proportion |-> proportion]
    ELSE LET stride == (tile_size * proportion[1]) \div proportion[2]
         IN  IF stride = 0 THEN DivisionPanic
             ELSE IF (image_width - tile_size) % stride # 0
                     \/ (image_height - tile_size) % stride # 0
             THEN [kind |-> "UnevenImageDivision", image_height |-> image_height,
                   image_width |-> image_width, tile_size |-> tile_size,
                   overlap_proportion |-> proportion]
             ELSE NoTilingError

\* image.slice(s![.., .., start_row..end_row, start_col..end_col]): the row
\* range indexes axis 2, the column range axis 3; a range that ends beyond
\* the axis aborts.
SliceInRange(shape, tile) ==
    tile.end_row <= shape.d2 /\ tile.end_col <= shape.d3

\* The same function without the last row and the last column of tiles.
tile_image_without_last(shape, tile_size, proportion) ==
    LET image_width == shape.d2
        image_height == shape.d3
        e == validate_tiling_parameters(proportion, tile_size, image_width, image_height)
    IN  IF e.kind = "Panic" THEN [status |-> "panic"]
        ELSE IF e.kind # "None" THEN [status |-> "err", error |-> e]
        ELSE LET stride == (tile_size * proportion[1]) \div proportion[2]
                 num_rows == Max2((image_height - tile_size) \div stride, 1)
                 num_columns == Max2((image_width - tile_size) \div stride, 1)
                 tiles == [r \in 1..num_rows |->
                             [c \in 1..num_columns |->
                                [start_row |-> (r - 1) * stride,
                                 end_row |-> (r - 1) * stride + tile_size,
                                 start_col |-> (c - 1) * stride,
                                 end_col |-> (c - 1) * stride + tile_size]]]
             IN  IF \A r \in 1..num_rows, c \in 1..num_columns :
                        SliceInRange(shape, tiles[r][c])
                 THEN [status |-> "ok", tiles |-> tiles]
                 ELSE [status |-> "panic"]

\* tile_image: image_width is read from axis 2 and image_height from axis
\* 3; the rows are counted from image_height, the columns from image_width.
tile_image(shape, tile_size, proportion) ==
    LET image_width == shape.d2
        image_height == shape.d3
        e == validate_tiling_parameters(proportion, tile_size, image_width, image_height)
    IN  IF e.kind = "Panic" THEN [status |-> "panic"]
        ELSE IF e.kind # "None" THEN [status |-> "err", error |-> e]
        ELSE LET stride == (tile_size * proportion[1]) \div proportion[2]
                 num_rows == ((image_height - tile_size) \div stride) + 1
                 num_columns == ((image_width - tile_size) \div stride) + 1
                 tiles == [r \in 1..num_rows |->
                             [c \in 1..num_columns |->
                                [start_row |-> (r - 1) * stride,
                                 end_row |-> (r - 1) * stride + tile_size,
                                 start_col |-> (c - 1) * stride,
                                 end_col |-> (c - 1) * stride + tile_size]]]
             IN  IF \A r \in 1..num_rows, c \in 1..num_columns :
                        SliceInRange(shape, tiles[r][c])
                 THEN [status |-> "ok", tiles |-> tiles]
                 ELSE [status |-> "panic"]

\* f32::ceil of the quotient x / y of two non-negative numbers, y > 0.
CeilDiv(x, y) == (x + y - 1) \div y

\* One dimension of find_smallest_img_size_large_enough_to_tile.  The f32
\* expressions are evaluated exactly: tile_size * proportion is the
\* fraction tile_size * num / den, the multiplier is the ceiling of
\* dim / (tile_size * num / den), and `as u32` truncates the product.  With
\* tile_size = 0 the quotient is infinite or NaN, the product is NaN and
\* `as u32` gives 0.
SmallestDim(dim, tile_size, proportion) ==
    IF tile_size * proportion[1] = 0 \/ proportion[2] = 0 THEN 0
    ELSE LET multiplier == CeilDiv(dim * proportion[2], tile_size * proportion[1])
         IN  (multiplier * tile_size * proportion[1]) \div proportion[2]

find_smallest_img_size_large_enough_to_tile(width, height, tile_size, overlap_proportion) ==
    <<SmallestDim(width, tile_size, overlap_proportion),
      SmallestDim(height, tile_size, overlap_proportion)>>

(***************************************************************************)
(* Specification of the tiling functions: each is called on parameters     *)
(* drawn at the start.                                                     *)
(***************************************************************************)
InitTiling ==
    /\ AllIdleBut("tiling")
    /\ tl_shape \in [d2 : 1..MaxDim, d3 : 1..MaxDim]
    /\ tl_tile_size \in 0..MaxTile
    /\ tl_proportion \in Proportions
    /\ tl_validation = [kind |-> "NotCalled"]
    /\ tl_tiles = [status |-> "none"]
    /\ tl_new_size = <<>>
    /\ tl_pc = "start"

ValidateTilingParameters ==
    /\ tl_pc = "start"
    /\ tl_validation' = validate_tiling_parameters(tl_proportion, tl_tile_size,
                                                   tl_shape.d2, tl_shape.d3)
    /\ tl_pc' = "validated"
    /\ UNCHANGED <<tl_shape, tl_tile_size, tl_proportion, tl_tiles, tl_new_size, outside_tiling>>

TileImage ==
    /\ tl_pc = "start"
    /\ tl_tiles' = tile_image(tl_shape, tl_tile_size, tl_proportion)
    /\ tl_pc' = "tiled"
    /\ UNCHANGED <<tl_shape, tl_tile_size, tl_proportion, tl_validation, tl_new_size,
                   outside_tiling>>

FindSmallestImgSize ==
    /\ tl_pc = "start"
    /\ tl_new_size' = find_smallest_img_size_large_enough_to_tile(
                          tl_shape.d2, tl_shape.d3, tl_tile_size, tl_proportion)
    /\ tl_pc' = "sized"
    /\ UNCHANGED <<tl_shape, tl_tile_size, tl_proportion, tl_validation, tl_tiles,
                   outside_tiling>>

NextTiling == ValidateTilingParameters \/ TileImage \/ FindSmallestImgSize

SpecTiling == InitTiling /\ [][NextTiling]_vars


(***************************************************************************)
(* image_utils/padding.rs                                                  *)
(***************************************************************************)

\* The same checks with <= for <: equal dimensions are rejected too.
validate_padding_parameters_strict(original_width, original_height, new_width, new_height) ==
    LET new_width_is_too_small == new_width <= original_width
        new_height_is_too_small == new_height <= original_height
    IN  IF new_width_is_too_small /\ new_height_is_too_small
        THEN [kind |-> "InvalidDimensions", original_width |-> original_width,
              new_width |-> new_width, original_height |-> original_height,
              new_height |-> new_height]
        ELSE IF new_width_is_too_small
        THEN [kind |-> "InvalidWidth", original_width |-> original_width,
              new_width |-> new_width]
        ELSE IF new_height_is_too_small
        THEN [kind |-> "InvalidHeight", original_height |-> original_height,
              new_height |-> new_height]
        ELSE [kind |-> "None"]

validate_padding_parameters(original_width, original_height, new_width, new_height) ==
    LET new_width_is_too_small == new_width < original_width
        new_height_is_too_small == new_height < original_height
    IN  IF new_width_is_too_small /\ new_height_is_too_small
        THEN [kind |-> "InvalidDimensions", original_width |-> original_width,
              new_width |-> new_width, original_height |-> original_height,
              new_height |-> new_height]
        ELSE IF new_width_is_too_small
        THEN [kind |-> "InvalidWidth", original_width |-> original_width,
              new_width |-> new_width]
        ELSE IF new_height_is_too_small
        THEN [kind |-> "InvalidHeight", original_height |-> original_height,
              new_height |-> new_height]
        ELSE [kind |-> "None"]

\* Padding that puts the new pixels on the left and on top: the original
\* pixel (x, y) lands at (x + new_width - width, y + new_height - height).
pad_left_top_img_rbg8(original_image, new_width, new_height) ==
    LET e == validate_padding_parameters(original_image.width, original_image.height,
                                         new_width, new_height)
        dx == new_width - original_image.width
        dy == new_height - original_image.height
    IN  IF e.kind # "None" THEN [status |-> "err", error |-> e]
        ELSE [status |-> "ok",
              image |-> [width |-> new_width, height |-> new_height,
                         pixels |-> [q \in PixelsOf(new_width, new_height) |->
                                       IF q[1] >= dx /\ q[2] >= dy
                                       THEN original_image.pixels[<<q[1] - dx, q[2] - dy>>]
                                       ELSE Black]]]

\* pad_right_bottom_img_rbg8: a new zero image of the new size, then every
\* pixel of the original is put at its own coordinates; put_pixel aborts on
\* coordinates outside the new image.
pad_right_bottom_img_rbg8(original_image, new_width, new_height) ==
    LET e == validate_padding_parameters(original_image.width, original_image.height,
                                         new_width, new_height)
        padded_image == RgbImageNew(new_width, new_height)
        original == PixelsOf(original_image.width, original_image.height)
    IN  IF e.kind # "None" THEN [status |-> "err", error |-> e]
        ELSE IF \E q \in original : q \notin DOMAIN padded_image.pixels
        THEN [status |-> "panic"]
        ELSE [status |-> "ok",
              image |-> [padded_image EXCEPT
                           !.pixels = [q \in DOMAIN padded_image.pixels |->
                                         IF q \in original
                                         THEN original_image.pixels[q]
                                         ELSE padded_image.pixels[q]]]]

(***************************************************************************)
(* Specification of the padding functions.                                 *)
(***************************************************************************)
InitPadding ==
    /\ AllIdleBut("padding")
    /\ \E w \in 1..MaxImgDim, h \in 1..MaxImgDim :
          pad_image \in [width : {w}, height : {h},
                         pixels : [PixelsOf(w, h) -> Colours]]
    /\ pad_new_width \in 0..MaxPadDim
    /\ pad_new_height \in 0..MaxPadDim
    /\ pad_validation = [kind |-> "NotCalled"]
    /\ pad_result = [status |-> "none"]
    /\ pad_pc = "start"

ValidatePaddingParameters ==
    /\ pad_pc = "start"
    /\ pad_validation' = validate_padding_parameters(pad_image.width, pad_image.height,
                                                     pad_new_width, pad_new_height)
    /\ pad_pc' = "validated"
    /\ UNCHANGED <<pad_image, pad_new_width, pad_new_height, pad_result, outside_padding>>

PadRightBottom ==
    /\ pad_pc = "start"
    /\ pad_result' = pad_right_bottom_img_rbg8(pad_image, pad_new_width, pad_new_height)
    /\ pad_pc' = "padded"
    /\ UNCHANGED <<pad_image, pad_new_width, pad_new_height, pad_validation, outside_padding>>

NextPadding == ValidatePaddingParameters \/ PadRightBottom

SpecPadding == InitPadding /\ [][NextPadding]_vars

(***************************************************************************)
(* image_utils/image_conversion.rs                                         *)
(*                                                                         *)
(* An image array (1, 3, d2, d3) is [d2, d3, data], data[<<i, j>>] the     *)
(* three channels at index i of axis 2 and j of axis 3.  A channel value   *)
(* k/255 is written k, so that the scaling by 255 of the two conversions   *)
(* is a change of notation; what the conversions do to the axes is kept.   *)
(***************************************************************************)
IndicesOf(d2, d3) == (0..(d2 - 1)) \X (0..(d3 - 1))

\* convert_array_view_to_rgb_image: width is axis 2, height is axis 3, and
\* pixel (x, y) is read at [y, x]; an index beyond an axis aborts.
convert_array_view_to_rgb_image(image_array) ==
    LET image_width == image_array.d2
        image_height == image_array.d3
    IN  IF \E q \in PixelsOf(image_width, image_height) :
               <<q[2], q[1]>> \notin DOMAIN image_array.data
        THEN [status |-> "panic"]
        ELSE [status |-> "ok",
              image |-> [width |-> image_width, height |-> image_height,
                         pixels |-> [q \in PixelsOf(image_width, image_height) |->
                                       image_array.data[<<q[2], q[1]>>]]]]

\* convert_rgb_image_to_owned_array: zeros of shape (1, 3, width, height),
\* then pixel (x, y) is written at [y, x].
convert_rgb_image_to_owned_array(rgb_image) ==
    IF \E q \in DOMAIN rgb_image.pixels :
           <<q[2], q[1]>> \notin IndicesOf(rgb_image.width, rgb_image.height)
    THEN [status |-> "panic"]
    ELSE [status |-> "ok",
          array |-> [d2 |-> rgb_image.width, d3 |-> rgb_image.height,
                     data |-> [q \in IndicesOf(rgb_image.width, rgb_image.height) |->
                                 rgb_image.pixels[<<q[2], q[1]>>]]]]

\* pad_image_to_fit_tiling_params (tiling.rs): the image itself when the
\* parameters are valid, else the image padded to the size
\* find_smallest_img_size_large_enough_to_tile gives; the padding result is
\* unwrapped.
pad_image_to_fit_tiling_params(image, tile_size, proportion) ==
    LET image_width == image.d2
        image_height == image.d3
        e == validate_tiling_parameters(proportion, tile_size, image_width, image_height)
        rgb_image == convert_array_view_to_rgb_image(image)
        new_size == find_smallest_img_size_large_enough_to_tile(
                        image_width, image_height, tile_size, proportion)
    IN  IF e.kind = "Panic" THEN [status |-> "panic"]
        ELSE IF rgb_image.status = "panic" THEN [status |-> "panic"]
        ELSE IF e.kind = "None" THEN rgb_image
        ELSE LET padded == pad_right_bottom_img_rbg8(rgb_image.image,
                                                     new_size[1], new_size[2])
             IN  IF padded.status = "ok" THEN padded ELSE [status |-> "panic"]

(***************************************************************************)
(* object_detection/object_detection_model.rs: the detector is a           *)
(* collaborator; the model is one of four fixed detectors.                 *)
(***************************************************************************)
Detectors == {"none", "corner", "whole", "keypoint"}

\* run_inference on one tile: nothing, a unit box in the tile's corner, a
\* box covering the tile, or (a pose model, Detection<BoundingBoxWithKeypoint>)
\* a unit box in the tile's corner with its keypoint on the box's far corner.
run_inference(detector, tile_size) ==
    IF detector = "corner"
    THEN <<[annotation |-> BoundingBoxNew(0, 0, 1, 1, "a").box, confidence |-> 2]>>
    ELSE IF detector = "keypoint"
    THEN <<[annotation |-> BoundingBoxWithKeypointNew(0, 0, 1, 1, 1, 1, "a").box,
            confidence |-> 2]>>
    ELSE IF detector = "whole"
    THEN <<[annotation |-> BoundingBoxNew(0, 0, tile_size, tile_size, "a").box,
            confidence |-> 1]>>
    ELSE <<>>

\* The same loop with the offset of the tile one column to the right and
\* one row below.
RECURSIVE RebaseFromNextTile(_, _, _, _, _)
RebaseFromNextTile(detections, preds, row_ix, col_ix, stride) ==
    IF preds = <<>> THEN detections
    ELSE LET pred == Head(preds)
             x_correction == (col_ix + 1) * stride
             y_correction == (row_ix + 1) * stride
             moved == [pred.annotation EXCEPT !.left = @ + x_correction,
                                              !.top = @ + y_correction,
                                              !.right = @ + x_correction,
                                              !.bottom = @ + y_correction]
         IN  RebaseFromNextTile(Append(detections,
                           MakeDetection(moved, pred.confidence, Len(detections) + 1)),
                    Tail(preds), row_ix, col_ix, stride)

\* The same loop moving only the left and top sides.
RECURSIVE RebaseLeftTop(_, _, _, _, _)
RebaseLeftTop(detections, preds, row_ix, col_ix, stride) ==
    IF preds = <<>> THEN detections
    ELSE LET pred == Head(preds)
             x_correction == col_ix * stride
             y_correction == row_ix * stride
             moved == [pred.annotation EXCEPT !.left = @ + x_correction,
                                              !.top = @ + y_correction]
         IN  RebaseLeftTop(Append(detections,
                           MakeDetection(moved, pred.confidence, Len(detections) + 1)),
                    Tail(preds), row_ix, col_ix, stride)

\* Lines 64-72 of tile_and_predict: each prediction of the tile at
\* (row_ix, col_ix) is moved by the tile's offset and pushed.
RECURSIVE Rebase(_, _, _, _, _)
Rebase(detections, preds, row_ix, col_ix, stride) ==
    IF preds = <<>> THEN detections
    ELSE LET pred == Head(preds)
             x_correction == col_ix * stride
             y_correction == row_ix * stride
             moved == [pred.annotation EXCEPT !.left = @ + x_correction,
                                              !.top = @ + y_correction,
                                              !.right = @ + x_correction,
                                              !.bottom = @ + y_correction]
         IN  Rebase(Append(detections,
                           MakeDetection(moved, pred.confidence, Len(detections) + 1)),
                    Tail(preds), row_ix, col_ix, stride)

RunThreshold == <<1, 2>>

(***************************************************************************)
(* Specification of run_yolov11_bounding_box_model.  Reading the class     *)
(* names and loading the model are taken to succeed.  Its detector gives   *)
(* rectangles; with the keypoint detector (a pose model) the call is a     *)
(* call of the generic tile_and_predict itself, which has no padding.      *)
(***************************************************************************)
RunDims == 4..5
RunTileSizes == {2, 4, 6}

\* The content of the image: a checkerboard.
Checkerboard(d2, d3) ==
    [q \in IndicesOf(d2, d3) |-> IF (q[1] + q[2]) % 2 = 0 THEN Black ELSE <<255, 0, 0>>]

InitRun ==
    /\ AllIdleBut("run")
    /\ \E d2 \in RunDims, d3 \in RunDims :
          run_image = [d2 |-> d2, d3 |-> d3, data |-> Checkerboard(d2, d3)]
    /\ run_tile_size \in RunTileSizes
    /\ run_proportion \in {<<1, 2>>, <<1, 4>>}
    /\ run_adaptive \in BOOLEAN
    /\ run_detector \in Detectors
    /\ run_detector = "keypoint" => ~run_adaptive
    /\ run_padded = [status |-> "none"]
    /\ run_tiled = [status |-> "none"]
    /\ run_tiles = <<>>
    /\ run_inferred = 0
    /\ run_detections = <<>>
    /\ run_result = [status |-> "none"]
    /\ run_calls = <<>>
    /\ run_pc = "start"

\* Lines 125-132: with use_adaptive_padding the padded image is computed and
\* converted into `padded_image`, a binding local to the block.
RunPadding ==
    /\ run_pc = "start"
    /\ run_adaptive
    /\ LET padded_image == pad_image_to_fit_tiling_params(run_image, run_tile_size,
                                                          run_proportion)
           padded_array == IF padded_image.status = "ok"
                           THEN convert_rgb_image_to_owned_array(padded_image.image)
                           ELSE [status |-> "panic"]
       IN  /\ run_padded' = padded_array
           /\ run_pc' = IF padded_array.status = "ok" THEN "predict" ELSE "panic"
           /\ run_result' = IF padded_array.status = "ok" THEN run_result
                            ELSE [status |-> "panic", cause |-> "padding"]
    /\ UNCHANGED <<run_image, run_tile_size, run_proportion, run_adaptive, run_detector,
                   run_tiled, run_tiles, run_inferred, run_detections, run_calls,
                   outside_run>>

RunWithoutPadding ==
    /\ run_pc = "start"
    /\ ~run_adaptive
    /\ run_pc' = "predict"
    /\ UNCHANGED <<run_image, run_tile_size, run_proportion, run_adaptive, run_detector,
                   run_padded, run_tiled, run_tiles, run_inferred, run_detections,
                   run_result, run_calls, outside_run>>

\* The same step without the early return: a TilingError leaves an empty
\* grid and the call goes on.
RunTileImageLenient ==
    /\ run_pc = "predict"
    /\ LET tiles == tile_image(run_image, run_tile_size, run_proportion)
       IN  /\ run_tiled' = [status |-> "ok", array |-> run_image]
           /\ run_tiles' = IF tiles.status = "ok" THEN tiles.tiles ELSE <<>>
           /\ run_pc' = IF tiles.status = "panic" THEN "panic" ELSE "infer"
           /\ run_result' = IF tiles.status = "panic"
                            THEN [status |-> "panic", cause |-> "slice"]
                            ELSE run_result
    /\ run_calls' = Append(run_calls, [fn |-> "tile_image"])
    /\ UNCHANGED <<run_image, run_tile_size, run_proportion, run_adaptive, run_detector,
                   run_padded, run_inferred, run_detections, outside_run>>

\* Lines 133-141 and tile_and_predict lines 57-58: tile_and_predict is
\* called on `image`, the array the function was given; a TilingError is
\* returned by `?` and unwrapped by the caller.
RunTileImage ==
    /\ run_pc = "predict"
    /\ LET tiles == tile_image(run_image, run_tile_size, run_proportion)
       IN  /\ run_tiled' = [status |-> "ok", array |-> run_image]
           /\ run_tiles' = IF tiles.status = "ok" THEN tiles.tiles ELSE <<>>
           /\ run_pc' = IF tiles.status = "ok" THEN "infer" ELSE "panic"
           /\ run_result' = IF tiles.status = "ok" THEN run_result
                            ELSE IF tiles.status = "err"
                            THEN [status |-> "panic", cause |-> "TilingError",
                                  error |-> tiles.error]
                            ELSE [status |-> "panic", cause |-> "slice"]
    /\ run_calls' = Append(run_calls, [fn |-> "tile_image"])
    /\ UNCHANGED <<run_image, run_tile_size, run_proportion, run_adaptive, run_detector,
                   run_padded, run_inferred, run_detections, outside_run>>

RunTileCount == IF run_tiles = <<>> THEN 0 ELSE Len(run_tiles) * Len(run_tiles[1])

\* The same enumeration with the columns outermost.
TileAtColumnMajor(k, num_rows, num_columns) ==
    [row_ix |-> k % num_rows, col_ix |-> k \div num_rows]

\* The nested enumerate() of lines 61-62: the k-th tile visited (from 0) of
\* a grid of num_rows rows of num_columns tiles.
TileAt(k, num_rows, num_columns) ==
    [row_ix |-> k \div num_columns, col_ix |-> k % num_columns]

\* tile_and_predict lines 61-74, one tile per step, row-major.
RunInference ==
    /\ run_pc = "infer"
    /\ run_inferred < RunTileCount
    /\ LET row_ix == TileAt(run_inferred, Len(run_tiles), Len(run_tiles[1])).row_ix
           col_ix == TileAt(run_inferred, Len(run_tiles), Len(run_tiles[1])).col_ix
           stride == (run_tile_size * run_proportion[1]) \div run_proportion[2]
           preds == run_inference(run_detector, run_tile_size)
       IN  /\ run_detections' = Rebase(run_detections, preds, row_ix, col_ix, stride)
           /\ run_calls' = Append(run_calls, [fn |-> "run_inference",
                                              row_ix |-> row_ix, col_ix |-> col_ix])
    /\ run_inferred' = run_inferred + 1
    /\ UNCHANGED <<run_image, run_tile_size, run_proportion, run_adaptive, run_detector,
                   run_padded, run_tiled, run_tiles, run_result, run_pc,
                   outside_run>>

\* tile_and_predict lines 75-76 and the caller's unwrap.
RunSuppression ==
    /\ run_pc = "infer"
    /\ run_inferred = RunTileCount
    /\ LET r == non_maximum_suppression(run_detections, RunThreshold)
       IN  /\ run_result' = IF r.status = "ok" THEN r
                            ELSE [status |-> "panic", cause |-> "DegenerateUnion"]
           /\ run_pc' = IF r.status = "ok" THEN "done" ELSE "panic"
    /\ run_calls' = Append(run_calls, [fn |-> "non_maximum_suppression",
                                       detections |-> run_detections])
    /\ UNCHANGED <<run_image, run_tile_size, run_proportion, run_adaptive, run_detector,
                   run_padded, run_tiled, run_tiles, run_inferred, run_detections,
                   outside_run>>

NextRun == RunPadding \/ RunWithoutPadding \/ RunTileImage \/ RunInference
              \/ RunSuppression

SpecRun == InitRun /\ [][NextRun]_vars

(***************************************************************************)
(* Specification of the rectangles' interface: a rectangle is built by one *)
(* of the two constructors, then written through the *_mut accessors or    *)
(* measured against a second rectangle.                                    *)
(***************************************************************************)
Coords == 0..MaxCoord
F32Values == Coords \cup {NaN}
Keypoints == {<<0, 0>>, <<1, 2>>}

\* The rectangles the constructors return on numbers.
Rectangles ==
    {BoundingBoxNew(q[1], q[2], q[3], q[4], "a").box :
        q \in {w \in Coords \X Coords \X Coords \X Coords : w[1] <= w[3] /\ w[2] <= w[4]}}
    \cup
    {BoundingBoxWithKeypointNew(q[1], q[2], q[3], q[4], 0, 0, "a").box :
        q \in {w \in Coords \X Coords \X Coords \X Coords : w[1] <= w[3] /\ w[2] <= w[4]}}

HasNaN(a) == NaN \in {a.left, a.top, a.right, a.bottom}

InitBox ==
    /\ AllIdleBut("bb")
    /\ bb_call = [fn |-> "none"]
    /\ bb_result = [status |-> "none"]
    /\ bb_rect = <<>>
    /\ bb_other = <<>>
    /\ bb_measure = [status |-> "none"]
    /\ bb_pc = "start"

NewBoundingBox ==
    /\ bb_pc = "start"
    /\ \E l, t, r, b \in F32Values :
          LET res == BoundingBoxNew(l, t, r, b, "a")
          IN  /\ bb_call' = [fn |-> "BoundingBox::new", left |-> l, top |-> t,
                             right |-> r, bottom |-> b]
              /\ bb_result' = res
              /\ bb_rect' = IF res.ok THEN <<res.box>> ELSE <<>>
    /\ bb_pc' = "built"
    /\ UNCHANGED <<bb_other, bb_measure, outside_bb>>

NewBoundingBoxWithKeypoint ==
    /\ bb_pc = "start"
    /\ \E l, t, r, b \in F32Values, k \in Keypoints :
          LET res == BoundingBoxWithKeypointNew(l, t, r, b, k[1], k[2], "a")
          IN  /\ bb_call' = [fn |-> "BoundingBoxWithKeypoint::new", left |-> l, top |-> t,
                             right |-> r, bottom |-> b, keypoint |-> k]
              /\ bb_result' = res
              /\ bb_rect' = IF res.ok THEN <<res.box>> ELSE <<>>
    /\ bb_pc' = "built"
    /\ UNCHANGED <<bb_other, bb_measure, outside_bb>>

\* *r.left_mut() = v, and likewise for the three other sides: the reference
\* is to the field itself.
WriteLeft ==
    /\ bb_pc \in {"built", "written"} /\ bb_rect # <<>>
    /\ \E v \in Coords :
          /\ bb_call' = [fn |-> "left_mut", value |-> v]
          /\ bb_rect' = <<[bb_rect[1] EXCEPT !.left = v]>>
    /\ bb_result' = [status |-> "none"]
    /\ bb_pc' = "written"
    /\ UNCHANGED <<bb_other, bb_measure, outside_bb>>

WriteTop ==
    /\ bb_pc \in {"built", "written"} /\ bb_rect # <<>>
    /\ \E v \in Coords :
          /\ bb_call' = [fn |-> "top_mut", value |-> v]
          /\ bb_rect' = <<[bb_rect[1] EXCEPT !.top = v]>>
    /\ bb_result' = [status |-> "none"]
    /\ bb_pc' = "written"
    /\ UNCHANGED <<bb_other, bb_measure, outside_bb>>

WriteRight ==
    /\ bb_pc \in {"built", "written"} /\ bb_rect # <<>>
    /\ \E v \in Coords :
          /\ bb_call' = [fn |-> "right_mut", value |-> v]
          /\ bb_rect' = <<[bb_rect[1] EXCEPT !.right = v]>>
    /\ bb_result' = [status |-> "none"]
    /\ bb_pc' = "written"
    /\ UNCHANGED <<bb_other, bb_measure, outside_bb>>

WriteBottom ==
    /\ bb_pc \in {"built", "written"} /\ bb_rect # <<>>
    /\ \E v \in Coords :
          /\ bb_call' = [fn |-> "bottom_mut", value |-> v]
          /\ bb_rect' = <<[bb_rect[1] EXCEPT !.bottom = v]>>
    /\ bb_result' = [status |-> "none"]
    /\ bb_pc' = "written"
    /\ UNCHANGED <<bb_other, bb_measure, outside_bb>>

\* The four writes of tile_and_predict (lines 67-70) on a rectangle whose
\* coordinates are numbers, for a tile at (row_ix, col_ix).
RebaseRectangle ==
    /\ bb_pc \in {"built", "written"} /\ bb_rect # <<>>
    /\ ~HasNaN(bb_rect[1])
    /\ \E row_ix \in 0..1, col_ix \in 0..1, stride \in 1..2 :
          LET moved == Rebase(<<>>, <<[annotation |-> bb_rect[1], confidence |-> 1]>>,
                              row_ix, col_ix, stride)[1].annotation
          IN  /\ moved.right <= MaxCoord /\ moved.bottom <= MaxCoord
              /\ moved.left <= MaxCoord /\ moved.top <= MaxCoord
              /\ bb_call' = [fn |-> "rebase", row_ix |-> row_ix, col_ix |-> col_ix,
                             stride |-> stride]
              /\ bb_rect' = <<moved>>
    /\ bb_result' = [status |-> "none"]
    /\ bb_pc' = "written"
    /\ UNCHANGED <<bb_other, bb_measure, outside_bb>>

\* area, intersection_area, union_area and intersection_over_union of the
\* rectangle just built and a second one, called in both argument orders.
\* The coordinates of both are numbers.
Measure ==
    /\ bb_pc = "built" /\ bb_rect # <<>>
    /\ ~HasNaN(bb_rect[1])
    /\ \E other \in Rectangles :
          /\ bb_other' = <<other>>
          /\ bb_measure' =
                [status |-> "measured",
                 area_self |-> area(bb_rect[1]),
                 area_other |-> area(other),
                 intersection_area |-> intersection_area(bb_rect[1], other),
                 intersection_area_rev |-> intersection_area(other, bb_rect[1]),
                 union_area |-> union_area(bb_rect[1], other),
                 union_area_rev |-> union_area(other, bb_rect[1]),
                 iou |-> intersection_over_union(bb_rect[1], other),
                 iou_rev |-> intersection_over_union(other, bb_rect[1])]
    /\ bb_pc' = "measured"
    /\ UNCHANGED <<bb_call, bb_result, bb_rect, outside_bb>>

NextBox ==
    \/ NewBoundingBox \/ NewBoundingBoxWithKeypoint
    \/ WriteLeft \/ WriteTop \/ WriteRight \/ WriteBottom
    \/ RebaseRectangle \/ Measure

SpecBox == InitBox /\ [][NextBox]_vars

(***************************************************************************)
(* annotations/point.rs                                                    *)
(*                                                                         *)
(* An f32 coordinate is [sign, abs]: sign 1 for a set sign bit, abs the    *)
(* magnitude; +0 is [0, 0] and -0 is [1, 0].                               *)
(***************************************************************************)
F32Coordinates == [sign : {0, 1}, abs : 0..MaxAbs]
Points == [x : F32Coordinates, y : F32Coordinates]

\* f32::to_bits: the sign bit and the bits of the magnitude, which differ
\* for different magnitudes.
to_bits(val) == <<val.sign, val.abs>>

\* normalize of PartialEq::eq (lines 20-28): `val == 0.0` holds for +0 and -0.
normalize(val) ==
    IF val.abs = 0 THEN to_bits([sign |-> 0, abs |-> 0]) ELSE to_bits(val)

\* impl PartialEq for Point: eq.
PointEq(self, other) ==
    normalize(self.x) = normalize(other.x) /\ normalize(self.y) = normalize(other.y)

\* impl Hash for Point: what hash writes into the hasher, in order.  Two
\* hashes are equal when the same was written; a hasher maps different
\* writes to different hashes but for a collision.
PointHash(self) == <<to_bits(self.x), to_bits(self.y)>>

InitPoint ==
    /\ AllIdleBut("pt")
    /\ pt_a \in Points
    /\ pt_b \in Points
    /\ pt_eq = <<>>
    /\ pt_hash = <<>>
    /\ pt_pc = "start"

ComparePoints ==
    /\ pt_pc = "start"
    /\ pt_eq' = <<PointEq(pt_a, pt_b)>>
    /\ pt_pc' = "compared"
    /\ UNCHANGED <<pt_a, pt_b, pt_hash, outside_pt>>

HashPoints ==
    /\ pt_pc = "compared"
    /\ pt_hash' = <<PointHash(pt_a), PointHash(pt_b)>>
    /\ pt_pc' = "hashed"
    /\ UNCHANGED <<pt_a, pt_b, pt_eq, outside_pt>>

NextPoint == ComparePoints \/ HashPoints

SpecPoint == InitPoint /\ [][NextPoint]_vars

(***************************************************************************)
(* registration/coherent_point_drift.rs: register                          *)
(*                                                                         *)
(* Variances and the tolerance are f32, written as whole numbers of a      *)
(* tenth of the unit so that tolerance / 10 is exact.  The point clouds    *)
(* and the matrices enter the loop only through the quotient               *)
(* update_variance computes; that quotient is any value of RawVariances.   *)
(***************************************************************************)

\* f32::MAX, the initial change_in_variance: above every other value.
F32_MAX == 1000000

Tolerances == {-10, 0, 10, 20, NaN}
InitialVariances == {0, 5, NaN}
RawVariances == {-5, 0, 1, 5, 25, NaN}

\* (x - y).abs() on f32.
FAbsDiff(x, y) ==
    IF x = NaN \/ y = NaN THEN NaN
    ELSE IF x >= y THEN x - y ELSE y - x

\* tolerance / 10.0 on f32.
FDiv10(t) == IF t = NaN THEN NaN ELSE t \div 10

\* update_variance, from the quotient of line 326 on: the clamp of lines
\* 327-329 and the change of line 330.
update_variance(raw, variance, tolerance) ==
    LET previous_variance == variance
        new_variance == IF FLe(raw, 0) THEN FDiv10(tolerance) ELSE raw
    IN  <<new_variance, FAbsDiff(new_variance, previous_variance)>>

\* The loop condition with || for &&.
LoopConditionEither(iteration, max_iterations, change_in_variance, tolerance) ==
    iteration < max_iterations \/ FGt(change_in_variance, tolerance)

\* The condition of the while loop (line 129).
LoopCondition(iteration, max_iterations, change_in_variance, tolerance) ==
    iteration < max_iterations /\ FGt(change_in_variance, tolerance)

\* CoherentPointDriftTransform::new with the parameters given.
InitCPD ==
    /\ AllIdleBut("cpd")
    /\ cpd_max_iterations \in 0..MaxIterations
    /\ cpd_tolerance \in Tolerances
    /\ cpd_variance \in InitialVariances
    /\ cpd_change_in_variance = F32_MAX
    /\ cpd_iteration = 0
    /\ cpd_pc = "new"

\* register, lines 124-128: the kernel, the transformed points, iteration = 0.
RegisterEnter ==
    /\ cpd_pc = "new"
    /\ cpd_iteration' = 0
    /\ cpd_pc' = "loop"
    /\ UNCHANGED <<cpd_max_iterations, cpd_tolerance, cpd_variance,
                   cpd_change_in_variance, outside_cpd>>

\* One execution of the loop body (lines 130-139): expectation, then
\* maximization, which ends with update_variance.
RegisterIterate ==
    /\ cpd_pc = "loop"
    /\ cpd_iteration <= MaxIterations
    /\ LoopCondition(cpd_iteration, cpd_max_iterations, cpd_change_in_variance,
                     cpd_tolerance)
    /\ \E raw \in RawVariances :
          LET updated == update_variance(raw, cpd_variance, cpd_tolerance)
          IN  /\ cpd_variance' = updated[1]
              /\ cpd_change_in_variance' = updated[2]
    /\ cpd_iteration' = cpd_iteration + 1
    /\ UNCHANGED <<cpd_max_iterations, cpd_tolerance, cpd_pc, outside_cpd>>

\* The loop body aborts: solve_into(col).unwrap() of solve_matrices (line
\* 274) on a matrix the solver rejects.
RegisterSolveFails ==
    /\ cpd_pc = "loop"
    /\ cpd_iteration <= MaxIterations
    /\ LoopCondition(cpd_iteration, cpd_max_iterations, cpd_change_in_variance,
                     cpd_tolerance)
    /\ cpd_pc' = "panic"
    /\ UNCHANGED <<cpd_max_iterations, cpd_tolerance, cpd_variance,
                   cpd_change_in_variance, cpd_iteration, outside_cpd>>

\* The loop condition is false: register returns.
RegisterReturn ==
    /\ cpd_pc = "loop"
    /\ ~LoopCondition(cpd_iteration, cpd_max_iterations, cpd_change_in_variance,
                      cpd_tolerance)
    /\ cpd_pc' = "returned"
    /\ UNCHANGED <<cpd_max_iterations, cpd_tolerance, cpd_variance,
                   cpd_change_in_variance, cpd_iteration, outside_cpd>>

NextCPD == RegisterEnter \/ RegisterIterate \/ RegisterSolveFails \/ RegisterReturn

SpecCPD == InitCPD /\ [][NextCPD]_vars

\* register is sequential code: a step that can be taken is taken.
SpecCPDFair == SpecCPD /\ WF_vars(NextCPD)

(***************************************************************************)
(* registration/coherent_point_drift.rs: generate_matching                 *)
(*                                                                         *)
(* probability_of_match is [rows, cols, at]: one row per source point, one *)
(* column per target point, indices from 0.                                *)
(***************************************************************************)
ProbabilityValues == {0, 1, NaN}

MatrixIndices(rows, cols) == (0..(rows - 1)) \X (0..(cols - 1))

Matrices(rows, cols, values) ==
    [rows : {rows}, cols : {cols}, at : [MatrixIndices(rows, cols) -> values]]

\* ArrayBase::indexed_iter().collect(): ((row, col), value) in row-major
\* order.
indexed_iter(matrix) ==
    [k \in 1..(matrix.rows * matrix.cols) |->
        LET ix == <<(k - 1) \div matrix.cols, (k - 1) % matrix.cols>>
        IN  [index |-> ix, value |-> matrix.at[ix]]]

\* Iterator::max_by with the comparison of lines 210-212: the running
\* maximum is kept only when it compares Greater than the next element; a
\* comparison with NaN is Equal.  best is the running maximum, k the next
\* position.
RECURSIVE max_by(_, _, _)
max_by(probs, best, k) ==
    IF k > Len(probs) THEN best
    ELSE IF FGt(best.value, probs[k].value) THEN max_by(probs, best, k + 1)
    ELSE max_by(probs, probs[k], k + 1)

\* The filter with || for &&: only the maximum itself is removed.
filter_probs_either(probs, max_index) ==
    SelectSeq(probs, LAMBDA q : q.index[1] # max_index[1] \/ q.index[2] # max_index[2])

\* The filter of lines 215-219: drops the row and the column of max_index.
filter_probs(probs, max_index) ==
    SelectSeq(probs, LAMBDA q : q.index[1] # max_index[1] /\ q.index[2] # max_index[2])

\* generate_matching_inner (lines 201-221).
RECURSIVE generate_matching_inner(_, _)
generate_matching_inner(probs, matches) ==
    IF probs = <<>> THEN matches
    ELSE LET max_index == max_by(probs, probs[1], 2).index
         IN  generate_matching_inner(filter_probs(probs, max_index),
                                     Append(matches, max_index))

generate_matching(probability_of_match) ==
    generate_matching_inner(indexed_iter(probability_of_match), <<>>)

InitMatching ==
    /\ AllIdleBut("gm")
    /\ \E rows \in 0..MaxPoints, cols \in 0..MaxPoints :
          gm_probability \in Matrices(rows, cols, ProbabilityValues)
    /\ gm_matching = <<>>
    /\ gm_pc = "start"

GenerateMatching ==
    /\ gm_pc = "start"
    /\ gm_matching' = generate_matching(gm_probability)
    /\ gm_pc' = "matched"
    /\ UNCHANGED <<gm_probability, outside_gm>>

NextMatching == GenerateMatching

SpecMatching == InitMatching /\ [][NextMatching]_vars

(***************************************************************************)
(* digitization/digitize.rs: filter_detections_with_cpd                    *)
(*                                                                         *)
(* The registration enters only through probability_of_match, which after  *)
(* cpd.register() is any matrix with one row per detection and one column  *)
(* per centroid.                                                           *)
(***************************************************************************)
CentroidNames == {"a", "c"}

\* The orders in which a HashMap with some of the names as keys gives its
\* entries.
PairOrders ==
    {names \in UNION {[1..n -> CentroidNames] : n \in 0..Cardinality(CentroidNames)} :
        \A i, j \in 1..Len(names) : i # j => names[i] # names[j]}

\* The loop without the comparison of the categories.
RECURSIVE filter_matched_any(_, _, _, _)
filter_matched_any(detections, pairs, matches, filtered_detections) ==
    IF matches = <<>> THEN filtered_detections
    ELSE LET src_ix == Head(matches)[1]
         IN  filter_matched_any(detections, pairs, Tail(matches),
                                Append(filtered_detections, detections[src_ix + 1]))

\* Lines 176-182: for each (src_ix, tar_ix) of the matching, in order, the
\* detection src_ix is cloned into the result when its category is the
\* name of pair tar_ix.
RECURSIVE filter_matched(_, _, _, _)
filter_matched(detections, pairs, matches, filtered_detections) ==
    IF matches = <<>> THEN filtered_detections
    ELSE LET src_ix == Head(matches)[1]
             tar_ix == Head(matches)[2]
         IN  IF detections[src_ix + 1].annotation.category = pairs[tar_ix + 1]
             THEN filter_matched(detections, pairs, Tail(matches),
                                 Append(filtered_detections, detections[src_ix + 1]))
             ELSE filter_matched(detections, pairs, Tail(matches), filtered_detections)

InitFilter ==
    /\ AllIdleBut("flt")
    /\ \E n \in 0..MaxFilterDets :
          \E cats \in [1..n -> Categories] :
              flt_detections =
                  [k \in 1..n |->
                      MakeDetection(BoundingBoxNew(k, 0, k + 1, 1, cats[k]).box, 1, k)]
    /\ flt_pairs \in PairOrders
    /\ flt_probability = [rows |-> 0, cols |-> 0, at |-> <<>>]
    /\ flt_matches = <<>>
    /\ flt_result = [status |-> "none"]
    /\ flt_pc = "start"

\* Lines 153-174: the centres and the centroids are handed to
\* from_point_vectors and register runs.
FilterRegister ==
    /\ flt_pc = "start"
    /\ flt_probability' \in Matrices(Len(flt_detections), Len(flt_pairs), {0, 1})
    /\ flt_pc' = "registered"
    /\ UNCHANGED <<flt_detections, flt_pairs, flt_matches, flt_result, outside_flt>>

\* register aborts in the solver.
FilterRegisterFails ==
    /\ flt_pc = "start"
    /\ flt_result' = [status |-> "panic"]
    /\ flt_pc' = "panic"
    /\ UNCHANGED <<flt_detections, flt_pairs, flt_probability, flt_matches, outside_flt>>

\* Line 175.
FilterMatch ==
    /\ flt_pc = "registered"
    /\ flt_matches' = generate_matching(flt_probability)
    /\ flt_pc' = "matched"
    /\ UNCHANGED <<flt_detections, flt_pairs, flt_probability, flt_result, outside_flt>>

\* Lines 176-182.
FilterLoop ==
    /\ flt_pc = "matched"
    /\ flt_result' = [status |-> "ok",
                      dets |-> filter_matched(flt_detections, flt_pairs, flt_matches, <<>>)]
    /\ flt_pc' = "done"
    /\ UNCHANGED <<flt_detections, flt_pairs, flt_probability, flt_matches, outside_flt>>

NextFilter == FilterRegister \/ FilterRegisterFails \/ FilterMatch \/ FilterLoop

SpecFilter == InitFilter /\ [][NextFilter]_vars

(***************************************************************************)
(* registration/thin_plate_splines.rs                                      *)
(*                                                                         *)
(* Points have whole-number coordinates.  The kernel r^2 ln r is kept in   *)
(* hundredths, rounded; a matrix is the sequence of its rows.  The linear  *)
(* solve is exact: the solution of L W = B is kept as the numerators       *)
(* det(L with column j replaced by a column of B) over the common          *)
(* denominator det(L), and the solver rejects exactly the matrices of      *)
(* determinant 0.  A transformed coordinate is a reduced fraction          *)
(* <<num, den>> with den > 0.                                              *)
(***************************************************************************)

\* 100 r^2 ln r for r^2 = 1, 2, ..., rounded.
KernelTable ==
    <<0, 69, 165, 277, 402, 538, 681, 832, 989, 1151, 1319, 1491, 1667, 1847, 2031,
      2218, 2408, 2601, 2797, 2996, 3197, 3400, 3606, 3814, 4024, 4236, 4449, 4665,
      4883, 5102, 5323, 5545>>

\* euclidean_distance, kept by its square.
euclidean_distance(p1, p2) ==
    (p1.x - p2.x) * (p1.x - p2.x) + (p1.y - p2.y) * (p1.y - p2.y)

\* kernel: 0 at distance 0, dist^2 * ln(dist) otherwise.
kernel(p1, p2) ==
    LET dist == euclidean_distance(p1, p2)
    IN  IF dist = 0 THEN 0 ELSE KernelTable[dist]

\* create_k_matrix: one entry per (source point, destination point), laid
\* out in a (source.len(), source.len()) array; from_shape_vec fails, and
\* its unwrap aborts, when the number of entries is not source.len()^2.
create_k_matrix(source, destination) ==
    IF Len(source) * Len(destination) # Len(source) * Len(source)
    THEN [ok |-> FALSE]
    ELSE [ok |-> TRUE,
          m |-> [i \in 1..Len(source) |->
                    [j \in 1..Len(source) |->
                        IF source[i] = destination[j] THEN 0
                        ELSE kernel(source[i], destination[j])]]]

create_p_matrix(source) ==
    [i \in 1..Len(source) |-> <<1, source[i].x, source[i].y>>]

create_o_matrix == [i \in 1..3 |-> <<0, 0, 0>>]

\* create_l_matrix: [[K, P], [P^T, O]].
create_l_matrix(source, destination) ==
    LET k_matrix == create_k_matrix(source, destination)
        p_matrix == create_p_matrix(source)
        o_matrix == create_o_matrix
        n == Len(source)
    IN  IF ~k_matrix.ok THEN [ok |-> FALSE]
        ELSE [ok |-> TRUE,
              m |-> [i \in 1..(n + 3) |->
                        IF i <= n THEN k_matrix.m[i] \o p_matrix[i]
                        ELSE [j \in 1..(n + 3) |->
                                 IF j <= n THEN p_matrix[j][i - n]
                                 ELSE o_matrix[i - n][j - n]]]]

\* create_b_matrix: the destination points followed by three rows of zeros.
create_b_matrix(destination) ==
    [i \in 1..(Len(destination) + 3) |->
        IF i <= Len(destination) THEN <<destination[i].x, destination[i].y>>
        ELSE <<0, 0>>]

\* The matrix without row i and column j.
Minor(m, i, j) ==
    [r \in 1..(Len(m) - 1) |->
        [c \in 1..(Len(m) - 1) |->
            m[IF r < i THEN r ELSE r + 1][IF c < j THEN c ELSE c + 1]]]

\* The determinant, expanded along the last row from column j on.
RECURSIVE Determinant(_), DeterminantFrom(_, _)
DeterminantFrom(m, j) ==
    LET n == Len(m)
    IN  IF j > n THEN 0
        ELSE (IF m[n][j] = 0 THEN 0
              ELSE (IF (n + j) % 2 = 0 THEN 1 ELSE -1) * m[n][j]
                       * Determinant(Minor(m, n, j)))
             + DeterminantFrom(m, j + 1)

Determinant(m) == IF Len(m) = 0 THEN 1 ELSE DeterminantFrom(m, 1)

\* The matrix with column j replaced by the vector col.
ReplaceColumn(m, j, col) ==
    [r \in 1..Len(m) |-> [c \in 1..Len(m) |-> IF c = j THEN col[r] ELSE m[r][c]]]

\* l_matrix.solve(&col): the exact solution by Cramer's rule, as the
\* numerators over det(l_matrix).
Solve(l_matrix, col) ==
    [j \in 1..Len(l_matrix) |-> Determinant(ReplaceColumn(l_matrix, j, col))]

\* solve_for_w_matrix: the two columns of B are solved for; the unwrap of a
\* rejected solve aborts.
solve_for_w_matrix(source, destination) ==
    LET l_matrix == create_l_matrix(source, destination)
        b_matrix == create_b_matrix(destination)
    IN  IF ~l_matrix.ok THEN [status |-> "panic"]
        ELSE IF Len(b_matrix) # Len(l_matrix.m) THEN [status |-> "panic"]
        ELSE IF Determinant(l_matrix.m) = 0 THEN [status |-> "panic"]
        ELSE LET col_0 == [i \in 1..Len(b_matrix) |-> b_matrix[i][1]]
                 col_1 == [i \in 1..Len(b_matrix) |-> b_matrix[i][2]]
                 w_matrix_col_0 == Solve(l_matrix.m, col_0)
                 w_matrix_col_1 == Solve(l_matrix.m, col_1)
             IN  [status |-> "ok",
                  den |-> Determinant(l_matrix.m),
                  num |-> [j \in 1..Len(l_matrix.m) |->
                              <<w_matrix_col_0[j], w_matrix_col_1[j]>>]]

RECURSIVE Gcd(_, _)
Gcd(a, b) == IF b = 0 THEN a ELSE Gcd(b, a % b)

Abs(x) == IF x < 0 THEN -x ELSE x

\* The number num / den (den # 0) as a reduced fraction.
Frac(num, den) ==
    LET g == Gcd(Abs(num), Abs(den))
    IN  IF den > 0 THEN <<num \div g, den \div g>>
        ELSE <<(-num) \div g, (-den) \div g>>

FracLe(a, b) == a[1] * b[2] <= b[1] * a[2]

RECURSIVE Dot(_, _, _, _)
Dot(kernel_vec, w_num, column, j) ==
    IF j > Len(kernel_vec) THEN 0
    ELSE kernel_vec[j] * w_num[j][column] + Dot(kernel_vec, w_num, column, j + 1)

\* The vector built with the source points in place of the destination
\* points.
kernel_vec_of_source(source, destination, p) ==
    [j \in 1..(Len(source) + 3) |->
        IF j <= Len(source) THEN kernel(source[j], p)
        ELSE IF j = Len(source) + 1 THEN 1
        ELSE IF j = Len(source) + 2 THEN p.x
        ELSE p.y]

\* Lines 28-34 of transform_point: the kernel of p against every
\* destination point, then 1, p.x, p.y.
kernel_vec(source, destination, p) ==
    [j \in 1..(Len(destination) + 3) |->
        IF j <= Len(destination) THEN kernel(destination[j], p)
        ELSE IF j = Len(destination) + 1 THEN 1
        ELSE IF j = Len(destination) + 2 THEN p.x
        ELSE p.y]

\* transform_point: kernel_vec . w_matrix.
transform_point(source, destination, w_matrix, p) ==
    LET kv == kernel_vec(source, destination, p)
    IN  [x |-> Frac(Dot(kv, w_matrix.num, 1, 1), w_matrix.den),
         y |-> Frac(Dot(kv, w_matrix.num, 2, 1), w_matrix.den)]

\* transform_box: the four corners are transformed, and the minima and
\* maxima of lines 84-87 are taken over left_top, left_bottom, right_top
\* and right_bottom, the corners of bbox itself.
transform_box(source, destination, w_matrix, bbox) ==
    LET left_top == [x |-> bbox.left, y |-> bbox.top]
        left_bottom == [x |-> bbox.left, y |-> bbox.bottom]
        right_top == [x |-> bbox.right, y |-> bbox.top]
        right_bottom == [x |-> bbox.right, y |-> bbox.bottom]
        transformed_left_top == transform_point(source, destination, w_matrix, left_top)
        transformed_left_bottom ==
            transform_point(source, destination, w_matrix, left_bottom)
        transformed_right_top == transform_point(source, destination, w_matrix, right_top)
        transformed_right_bottom ==
            transform_point(source, destination, w_matrix, right_bottom)
        new_left == Min2(left_top.x, left_bottom.x)
        new_top == Min2(left_top.y, right_top.y)
        new_right == Max2(right_top.x, right_bottom.x)
        new_bottom == Max2(left_bottom.y, right_bottom.y)
    IN  <<new_left, new_top, new_right, new_bottom>>

transform_bounding_box(source, destination, w_matrix, bbox) ==
    LET category == bbox.category
        new == transform_box(source, destination, w_matrix, bbox)
    IN  BoundingBoxNew(new[1], new[2], new[3], new[4], category)

transform_bounding_box_with_keypoint(source, destination, w_matrix, bbox_with_kp) ==
    LET category == bbox_with_kp.category
        keypoint == [x |-> bbox_with_kp.keypoint.x, y |-> bbox_with_kp.keypoint.y]
        new_keypoint == transform_point(source, destination, w_matrix, keypoint)
        new == transform_box(source, destination, w_matrix, bbox_with_kp)
    IN  BoundingBoxWithKeypointNew(new[1], new[2], new[3], new[4],
                                   new_keypoint.x, new_keypoint.y, category)

(***************************************************************************)
(* Specification of the thin-plate-spline transform: it is built from      *)
(* correspondences drawn at the start and then called.                     *)
(***************************************************************************)
Pt(x, y) == [x |-> x, y |-> y]

\* The source point sets: a triangle, a square, three points on a line,
\* two points, and no point.
TpsSources ==
    {<<Pt(0, 0), Pt(1, 0), Pt(0, 1)>>,
     <<Pt(0, 0), Pt(2, 0), Pt(0, 2), Pt(2, 2)>>,
     <<Pt(0, 0), Pt(1, 0), Pt(2, 0)>>,
     <<Pt(0, 0), Pt(1, 1)>>,
     <<>>}

\* How far a destination point is from its source point.
TpsOffsets == {Pt(0, 0), Pt(1, 0), Pt(0, 1)}

\* The destinations of a source: every point moved by an offset, or the
\* source with its last point left out.
TpsDestinations(source) ==
    {[k \in 1..Len(source) |->
         Pt(source[k].x + offsets[k].x, source[k].y + offsets[k].y)] :
        offsets \in [1..Len(source) -> TpsOffsets]}
    \cup {SubSeq(source, 1, Len(source) - 1)}

\* The points and rectangles the transform is called on.
TpsPoints == {Pt(x, y) : x \in 0..2, y \in 0..2}
TpsRectangles ==
    {BoundingBoxNew(q[1], q[2], q[3], q[4], c).box :
        q \in {<<0, 0, 1, 1>>, <<0, 1, 2, 2>>}, c \in Categories}
TpsKeypointRectangles ==
    {BoundingBoxWithKeypointNew(q[1], q[2], q[3], q[4], q[5], q[6], c).box :
        q \in {<<0, 0, 1, 1, 1, 0>>, <<0, 1, 2, 2, 1, 1>>}, c \in Categories}

InitTps ==
    /\ AllIdleBut("tps")
    /\ tps_source \in TpsSources
    /\ tps_destination \in TpsDestinations(tps_source)
    /\ tps_w_matrix = [status |-> "none"]
    /\ tps_call = [fn |-> "none"]
    /\ tps_result = [status |-> "none"]
    /\ tps_pc = "start"

\* TpsTransform::new.
TpsNew ==
    /\ tps_pc = "start"
    /\ tps_w_matrix' = solve_for_w_matrix(tps_source, tps_destination)
    /\ tps_pc' = IF tps_w_matrix'.status = "ok" THEN "built" ELSE "panic"
    /\ UNCHANGED <<tps_source, tps_destination, tps_call, tps_result, outside_tps>>

TpsTransformPoint ==
    /\ tps_pc = "built"
    /\ \E p \in TpsPoints :
          /\ tps_call' = [fn |-> "transform_point", p |-> p]
          /\ tps_result' = [status |-> "ok",
                            point |-> transform_point(tps_source, tps_destination,
                                                      tps_w_matrix, p)]
    /\ UNCHANGED <<tps_source, tps_destination, tps_w_matrix, tps_pc, outside_tps>>

TpsTransformBoundingBox ==
    /\ tps_pc = "built"
    /\ \E bbox \in TpsRectangles :
          /\ tps_call' = [fn |-> "transform_bounding_box", bbox |-> bbox]
          /\ tps_result' = transform_bounding_box(tps_source, tps_destination,
                                                  tps_w_matrix, bbox)
    /\ UNCHANGED <<tps_source, tps_destination, tps_w_matrix, tps_pc, outside_tps>>

TpsTransformBoundingBoxWithKeypoint ==
    /\ tps_pc = "built"
    /\ \E bbox \in TpsKeypointRectangles :
          /\ tps_call' = [fn |-> "transform_bounding_box_with_keypoint", bbox |-> bbox]
          /\ tps_result' = transform_bounding_box_with_keypoint(
                               tps_source, tps_destination, tps_w_matrix, bbox)
    /\ UNCHANGED <<tps_source, tps_destination, tps_w_matrix, tps_pc, outside_tps>>

NextTps == TpsNew \/ TpsTransformPoint \/ TpsTransformBoundingBox
              \/ TpsTransformBoundingBoxWithKeypoint

SpecTps == InitTps /\ [][NextTps]_vars

(***************************************************************************)
(* Claims about non_maximum_suppression.                                   *)
(***************************************************************************)
NmsSorted == SortByConfidence(nms_input)

\* Positions (in the caller's list) of the detections NMS returned.
NmsKept == {nms_result.dets[k].pos : k \in 1..Len(nms_result.dets)}

\* Detection i of the sorted list suppresses detection j: same category and
\* IoU above the threshold.
Conflict(a, b, th) ==
    /\ a.annotation.category = b.annotation.category
    /\ union_area(a.annotation, b.annotation) > 0
    /\ IouExceeds(intersection_over_union(a.annotation, b.annotation), th)

\* No two detections of one category are both of zero area (the inputs on
\* which no IoU is undefined).
NoTwoDegenerate(dets) ==
    \A i, j \in 1..Len(dets) :
        (i # j /\ dets[i].annotation.category = dets[j].annotation.category)
            => (area(dets[i].annotation) > 0 \/ area(dets[j].annotation) > 0)

\* C1 (as claimed): a detection j is dropped exactly when an earlier
\* detection of the confidence-descending order that is itself kept has j's
\* category and IoU(i, j) above the threshold; a dropped detection drops
\* nothing.
C1_DroppedOnlyByKept ==
    (nms_pc # "input" /\ nms_result.status = "ok") =>
        \A j \in 1..Len(NmsSorted) :
            (NmsSorted[j].pos \notin NmsKept) <=>
                (\E i \in 1..(j - 1) :
                    /\ NmsSorted[i].pos \in NmsKept
                    /\ Conflict(NmsSorted[i], NmsSorted[j], nms_threshold))

\* C2: the returned sequence is in non-increasing confidence order and
\* survivors of equal confidence keep the relative order of the input.
C2_OutputOrdered ==
    (nms_pc # "input" /\ nms_result.status = "ok") =>
        \A i, j \in 1..Len(nms_result.dets) :
            i < j =>
                /\ nms_result.dets[i].confidence >= nms_result.dets[j].confidence
                /\ (nms_result.dets[i].confidence = nms_result.dets[j].confidence
                        => nms_result.dets[i].pos < nms_result.dets[j].pos)

\* C2 witness: an input out of confidence order, with a tie among the
\* survivors and a dropped detection.
C2_Witness ==
    /\ nms_pc = "called" /\ nms_result.status = "ok"
    /\ \E i, j \in 1..Len(nms_input) :
          i < j /\ nms_input[i].confidence < nms_input[j].confidence
    /\ \E i, j \in 1..Len(nms_result.dets) :
          i < j /\ nms_result.dets[i].confidence = nms_result.dets[j].confidence
    /\ Len(nms_result.dets) < Len(nms_input)

\* C3: on every input without two same-category zero-area detections the
\* call returns, and NMS of its output is that output again.
C3_Idempotent ==
    /\ (nms_pc # "input" /\ NoTwoDegenerate(nms_input)) => nms_result.status = "ok"
    /\ nms_pc = "recalled" =>
          (nms_again.status = "ok" /\ nms_again.dets = nms_result.dets)

\* C3 witness: the first call dropped something and kept several.
C3_Witness ==
    /\ nms_pc = "recalled"
    /\ Len(nms_result.dets) < Len(nms_input)
    /\ Len(nms_result.dets) >= 2
    /\ nms_again.dets = nms_result.dets

PairwiseDistinctCategories(dets) ==
    \A i, j \in 1..Len(dets) :
        i # j => dets[i].annotation.category # dets[j].annotation.category

IsConfidenceDescending(dets) ==
    \A i, j \in 1..Len(dets) : i < j => dets[i].confidence >= dets[j].confidence

\* C4: with pairwise distinct categories nothing is dropped (the output is
\* the input, reordered by confidence, and the input itself when that is
\* already descending); in general every dropped detection has an earlier
\* detection of its own category overlapping it above the threshold.
C4_CategoryPurity ==
    (nms_pc # "input") =>
        /\ PairwiseDistinctCategories(nms_input) =>
              /\ nms_result.status = "ok"
              /\ Len(nms_result.dets) = Len(nms_input)
              /\ NmsKept = 1..Len(nms_input)
              /\ IsConfidenceDescending(nms_input) => nms_result.dets = nms_input
        /\ nms_result.status = "ok" =>
              \A j \in 1..Len(NmsSorted) :
                  NmsSorted[j].pos \notin NmsKept =>
                      \E i \in 1..(j - 1) :
                          Conflict(NmsSorted[i], NmsSorted[j], nms_threshold)

\* C4 witness: two detections of different categories on the same
\* rectangle (IoU 1), both returned.
C4_Witness ==
    /\ nms_pc = "called" /\ nms_result.status = "ok"
    /\ Len(nms_input) = 2
    /\ nms_input[1].annotation.category # nms_input[2].annotation.category
    /\ nms_input[1].annotation.left = nms_input[2].annotation.left
    /\ nms_input[1].annotation.right = nms_input[2].annotation.right
    /\ nms_input[1].annotation.top = nms_input[2].annotation.top
    /\ nms_input[1].annotation.bottom = nms_input[2].annotation.bottom
    /\ area(nms_input[1].annotation) > 0
    /\ Len(nms_result.dets) = 2

(***************************************************************************)
(* Claims about validate_tiling_parameters, tile_image and                 *)
(* find_smallest_img_size_large_enough_to_tile.                            *)
(***************************************************************************)
TileTooLarge == tl_tile_size > tl_shape.d2 \/ tl_tile_size > tl_shape.d3
TileDividesCleanly == (tl_tile_size * tl_proportion[1]) % tl_proportion[2] = 0
TlStride == (tl_tile_size * tl_proportion[1]) \div tl_proportion[2]
ImageDividesUnevenly ==
    \/ (tl_shape.d2 - tl_tile_size) % TlStride # 0
    \/ (tl_shape.d3 - tl_tile_size) % TlStride # 0

\* C5: for a positive tile_size the three checks are applied in the order
\* tile size, proportion, image division, the first failing one decides
\* the result, the result is None when none fails, and each error carries
\* the parameters it was called with.
C5_ValidationOrder ==
    (tl_pc = "validated" /\ tl_tile_size > 0) =>
        /\ tl_validation.kind = "InvalidTileSize" <=> TileTooLarge
        /\ tl_validation.kind = "IncompatibleProportionWithTileSize" <=>
              (~TileTooLarge /\ ~TileDividesCleanly)
        /\ tl_validation.kind = "UnevenImageDivision" <=>
              (~TileTooLarge /\ TileDividesCleanly /\ ImageDividesUnevenly)
        /\ tl_validation.kind = "None" <=>
              (~TileTooLarge /\ TileDividesCleanly /\ ~ImageDividesUnevenly)
        /\ tl_validation.kind = "InvalidTileSize" =>
              tl_validation = [kind |-> "InvalidTileSize", tile_size |-> tl_tile_size,
                               image_width |-> tl_shape.d2, image_height |-> tl_shape.d3]
        /\ tl_validation.kind = "IncompatibleProportionWithTileSize" =>
              tl_validation = [kind |-> "IncompatibleProportionWithTileSize",
                               tile_size |-> tl_tile_size,
                               overlap_proportion |-> tl_proportion]
        /\ tl_validation.kind = "UnevenImageDivision" =>
              tl_validation = [kind |-> "UnevenImageDivision",
                               image_height |-> tl_shape.d3, image_width |-> tl_shape.d2,
                               tile_size |-> tl_tile_size,
                               overlap_proportion |-> tl_proportion]

\* C5 witness: the proportion does not divide the tile size and the image,
\* cut with the rounded-down stride, divides unevenly; the earlier check
\* decides.
C5_Witness ==
    /\ tl_pc = "validated" /\ tl_tile_size > 0
    /\ ~TileTooLarge /\ ~TileDividesCleanly
    /\ TlStride > 0 /\ ImageDividesUnevenly
    /\ tl_validation.kind = "IncompatibleProportionWithTileSize"

\* C6 (as claimed): on parameters that pass validation tile_image returns
\* (height - tile_size)/s + 1 rows of (width - tile_size)/s + 1 tiles, tile
\* (r, c) is rows [r*s, r*s + tile_size) and columns [c*s, c*s + tile_size),
\* and every tile lies inside the image, square or not.
C6_TilesInsideImage ==
    (tl_pc = "tiled" /\ tl_tile_size > 0
        /\ ~TileTooLarge /\ TileDividesCleanly /\ ~ImageDividesUnevenly) =>
        /\ tl_tiles.status = "ok"
        /\ Len(tl_tiles.tiles) = ((tl_shape.d3 - tl_tile_size) \div TlStride) + 1
        /\ \A r \in 1..Len(tl_tiles.tiles) :
              /\ Len(tl_tiles.tiles[r]) = ((tl_shape.d2 - tl_tile_size) \div TlStride) + 1
              /\ \A c \in 1..Len(tl_tiles.tiles[r]) :
                    LET tile == tl_tiles.tiles[r][c]
                    IN  /\ tile.start_row = (r - 1) * TlStride
                        /\ tile.end_row = tile.start_row + tl_tile_size
                        /\ tile.start_col = (c - 1) * TlStride
                        /\ tile.end_col = tile.start_col + tl_tile_size
                        /\ tile.end_row <= tl_shape.d2
                        /\ tile.end_col <= tl_shape.d3

PassesValidation(w, h) ==
    validate_tiling_parameters(tl_proportion, tl_tile_size, w, h).kind = "None"

\* C7 (as claimed): when the proportion divides the tile size the result
\* is (ceil(width/s)*s, ceil(height/s)*s), it covers the input, it passes
\* validate_tiling_parameters, no smaller covering size passes, and it is
\* the input size when the input size passes.
C7_SmallestTileableSize ==
    (tl_pc = "sized" /\ tl_tile_size > 0 /\ TileDividesCleanly) =>
        /\ tl_new_size[1] = CeilDiv(tl_shape.d2, TlStride) * TlStride
        /\ tl_new_size[2] = CeilDiv(tl_shape.d3, TlStride) * TlStride
        /\ tl_new_size[1] >= tl_shape.d2 /\ tl_new_size[2] >= tl_shape.d3
        /\ PassesValidation(tl_new_size[1], tl_new_size[2])
        /\ \A w \in tl_shape.d2..tl_new_size[1], h \in tl_shape.d3..tl_new_size[2] :
              PassesValidation(w, h) => <<w, h>> = tl_new_size
        /\ PassesValidation(tl_shape.d2, tl_shape.d3) =>
              tl_new_size = <<tl_shape.d2, tl_shape.d3>>

(***************************************************************************)
(* Claims about padding.                                                   *)
(***************************************************************************)

\* C8: with new dimensions not below the original ones the result is an
\* image of exactly the new dimensions, equal to the original at every
\* (x, y) of the original and (0, 0, 0) everywhere else.
C8_PadKeepsOrigin ==
    (pad_pc = "padded" /\ pad_new_width >= pad_image.width
        /\ pad_new_height >= pad_image.height) =>
        /\ pad_result.status = "ok"
        /\ pad_result.image.width = pad_new_width
        /\ pad_result.image.height = pad_new_height
        /\ DOMAIN pad_result.image.pixels = PixelsOf(pad_new_width, pad_new_height)
        /\ \A q \in PixelsOf(pad_new_width, pad_new_height) :
              pad_result.image.pixels[q] =
                  IF q[1] < pad_image.width /\ q[2] < pad_image.height
                  THEN pad_image.pixels[q]
                  ELSE Black

\* C8 witness: an image with a coloured pixel in its last column and last
\* row, padded in both dimensions.
C8_Witness ==
    /\ pad_pc = "padded" /\ pad_result.status = "ok"
    /\ pad_new_width > pad_image.width /\ pad_new_height > pad_image.height
    /\ pad_image.width >= 2 /\ pad_image.height >= 2
    /\ pad_image.pixels[<<pad_image.width - 1, pad_image.height - 1>>] # Black
    /\ pad_result.image.pixels[<<pad_image.width - 1, pad_image.height - 1>>] # Black

WidthShrinks == pad_new_width < pad_image.width
HeightShrinks == pad_new_height < pad_image.height

ExpectedPaddingError ==
    IF WidthShrinks /\ HeightShrinks
    THEN [kind |-> "InvalidDimensions", original_width |-> pad_image.width,
          new_width |-> pad_new_width, original_height |-> pad_image.height,
          new_height |-> pad_new_height]
    ELSE IF WidthShrinks
    THEN [kind |-> "InvalidWidth", original_width |-> pad_image.width,
          new_width |-> pad_new_width]
    ELSE IF HeightShrinks
    THEN [kind |-> "InvalidHeight", original_height |-> pad_image.height,
          new_height |-> pad_new_height]
    ELSE [kind |-> "None"]

\* C9: padding fails only when a dimension would shrink; the error is
\* InvalidDimensions when both shrink, InvalidWidth when only the width
\* does, InvalidHeight when only the height does; otherwise (equal
\* dimensions included) it succeeds; a failed call returns no image.
C9_PaddingErrors ==
    /\ pad_pc = "validated" =>
          /\ pad_validation.kind = "InvalidDimensions" <=> (WidthShrinks /\ HeightShrinks)
          /\ pad_validation.kind = "InvalidWidth" <=> (WidthShrinks /\ ~HeightShrinks)
          /\ pad_validation.kind = "InvalidHeight" <=> (~WidthShrinks /\ HeightShrinks)
          /\ pad_validation.kind = "None" <=> (~WidthShrinks /\ ~HeightShrinks)
          /\ pad_validation = ExpectedPaddingError
    /\ pad_pc = "padded" =>
          /\ pad_result.status = "err" <=> (WidthShrinks \/ HeightShrinks)
          /\ pad_result.status = "ok" <=> (~WidthShrinks /\ ~HeightShrinks)
          /\ pad_result.status = "err" =>
                /\ pad_result.error = ExpectedPaddingError
                /\ "image" \notin DOMAIN pad_result

\* C9 witness: padding to the original dimensions succeeds.
C9_Witness ==
    /\ pad_pc = "padded"
    /\ pad_new_width = pad_image.width /\ pad_new_height = pad_image.height
    /\ pad_result.status = "ok"

(***************************************************************************)
(* Claims about run_yolov11_bounding_box_model.                            *)
(***************************************************************************)
RunInputValid ==
    validate_tiling_parameters(run_proportion, run_tile_size,
                               run_image.d2, run_image.d3).kind = "None"

RunPaddedSize ==
    find_smallest_img_size_large_enough_to_tile(run_image.d2, run_image.d3,
                                                run_tile_size, run_proportion)

\* C10 (as claimed): with use_adaptive_padding, on an image that fails
\* tiling validation while the proportion divides the tile size, the image
\* handed to tile_and_predict is the padded one, of dimensions (W', H'), and
\* the call does not end in a TilingError.
C10_PaddingRecovers ==
    (/\ run_adaptive
     /\ (run_tile_size * run_proportion[1]) % run_proportion[2] = 0
     /\ ~RunInputValid
     /\ run_tiled.status = "ok") =>
        /\ <<run_tiled.array.d2, run_tiled.array.d3>> = RunPaddedSize
        /\ ~(run_pc = "panic" /\ run_result.cause = "TilingError")

(***************************************************************************)
(* Claims about tile_and_predict.                                          *)
(***************************************************************************)

\* Every prediction of the detectors of the model lies within
\* [0, tile_size] x [0, tile_size].
DetectorStaysInTile ==
    \A k \in 1..Len(run_inference(run_detector, run_tile_size)) :
        LET b == run_inference(run_detector, run_tile_size)[k].annotation
        IN  /\ 0 <= b.left /\ b.right <= run_tile_size
            /\ 0 <= b.top /\ b.bottom <= run_tile_size

\* C11: when the detector's predictions lie within the tile, every
\* detection tile_and_predict returns has left and right within
\* [0, image_width] and top and bottom within [0, image_height], image_width
\* and image_height being the lengths tile_image reads (axis 2 and axis 3).
C11_ReassemblyBounds ==
    (run_pc = "done" /\ DetectorStaysInTile) =>
        \A k \in 1..Len(run_result.dets) :
            LET b == run_result.dets[k].annotation
            IN  /\ 0 <= b.left /\ b.left <= b.right /\ b.right <= run_image.d2
                /\ 0 <= b.top /\ b.top <= b.bottom /\ b.bottom <= run_image.d3

\* C11 witness: a grid of several rows and columns, and a returned
\* detection that was moved and touches the right and bottom edges.
C11_Witness ==
    /\ run_pc = "done"
    /\ Len(run_tiles) > 1 /\ Len(run_tiles[1]) > 1
    /\ \E k \in 1..Len(run_result.dets) :
          /\ run_result.dets[k].annotation.left > 0
          /\ run_result.dets[k].annotation.right = run_image.d2
          /\ run_result.dets[k].annotation.bottom = run_image.d3

RunValidation ==
    validate_tiling_parameters(run_proportion, run_tile_size, run_image.d2, run_image.d3)

RunValidationFails == RunValidation.kind \notin {"None", "Panic"}

\* C12: when validation returns a TilingError, tile_and_predict ends with
\* exactly that error, its only call is the one to tile_image, the detector
\* has run on no tile and no detection was collected or suppressed.
C12_ErrorBeforeWork ==
    (RunValidationFails /\ run_calls # <<>>) =>
        /\ run_calls = <<[fn |-> "tile_image"]>>
        /\ run_pc = "panic"
        /\ run_result.cause = "TilingError"
        /\ run_result.error = RunValidation
        /\ run_inferred = 0
        /\ run_detections = <<>>

\* C12 witness: an UnevenImageDivision error has ended a call made with a
\* detector that would have returned detections.
C12_Witness ==
    /\ RunValidationFails
    /\ run_calls # <<>>
    /\ run_detector # "none"
    /\ run_result.error.kind = "UnevenImageDivision"

(***************************************************************************)
(* Claims about the rectangles.                                            *)
(***************************************************************************)
IsConstructorCall == bb_call.fn \in {"BoundingBox::new", "BoundingBoxWithKeypoint::new"}

\* C13 (as claimed): both constructors succeed exactly when left <= right
\* and top <= bottom, return InvalidLeftRight{left, right} exactly when
\* left > right, and InvalidTopBottom{top, bottom} exactly when
\* left <= right and top > bottom, whatever the keypoint.
C13_ConstructorOutcomes ==
    (bb_pc = "built" /\ IsConstructorCall) =>
        /\ bb_result.ok <=>
              (FLe(bb_call.left, bb_call.right) /\ FLe(bb_call.top, bb_call.bottom))
        /\ (~bb_result.ok /\ bb_result.err = "InvalidLeftRight") <=>
              FGt(bb_call.left, bb_call.right)
        /\ (~bb_result.ok /\ bb_result.err = "InvalidTopBottom") <=>
              (FLe(bb_call.left, bb_call.right) /\ FGt(bb_call.top, bb_call.bottom))
        /\ (~bb_result.ok /\ bb_result.err = "InvalidLeftRight") =>
              (bb_result.left = bb_call.left /\ bb_result.right = bb_call.right)
        /\ (~bb_result.ok /\ bb_result.err = "InvalidTopBottom") =>
              (bb_result.top = bb_call.top /\ bb_result.bottom = bb_call.bottom)

\* C14 (as claimed, for coordinates that are numbers): every rectangle
\* built by a constructor and then written through left_mut, top_mut,
\* right_mut, bottom_mut or by tile rebasing has left <= right and
\* top <= bottom.
C14_RectangleInvariant ==
    (bb_rect # <<>> /\ ~HasNaN(bb_rect[1])) =>
        /\ bb_rect[1].left <= bb_rect[1].right
        /\ bb_rect[1].top <= bb_rect[1].bottom

\* C15: for two rectangles of positive area the intersection area is
\* max(0, min(rights) - max(lefts)) * max(0, min(bottoms) - max(tops)), it
\* lies between 0 and the union area, the IoU is defined and lies between
\* 0 and 1, and the three measures are the same in both argument orders;
\* either rectangle may be a keypoint-rectangle.
C15_IntersectionAndSymmetry ==
    (bb_pc = "measured" /\ bb_measure.area_self > 0 /\ bb_measure.area_other > 0) =>
        LET a == bb_rect[1]
            b == bb_other[1]
        IN  /\ bb_measure.intersection_area =
                  Max2(0, Min2(a.right, b.right) - Max2(a.left, b.left))
                      * Max2(0, Min2(a.bottom, b.bottom) - Max2(a.top, b.top))
            /\ 0 <= bb_measure.intersection_area
            /\ bb_measure.intersection_area <= bb_measure.union_area
            /\ ~bb_measure.iou.panic
            /\ bb_measure.iou.den > 0
            /\ 0 <= bb_measure.iou.num /\ bb_measure.iou.num <= bb_measure.iou.den
            /\ bb_measure.intersection_area_rev = bb_measure.intersection_area
            /\ bb_measure.union_area_rev = bb_measure.union_area
            /\ bb_measure.iou_rev = bb_measure.iou

\* C15 witness: a keypoint-rectangle and a plain rectangle that overlap in
\* part: the intersection is smaller than either.
C15_Witness ==
    /\ bb_pc = "measured"
    /\ bb_measure.area_self > 0 /\ bb_measure.area_other > 0
    /\ "keypoint" \in DOMAIN bb_rect[1]
    /\ "keypoint" \notin DOMAIN bb_other[1]
    /\ bb_measure.intersection_area > 0
    /\ bb_measure.intersection_area < bb_measure.area_self
    /\ bb_measure.intersection_area < bb_measure.area_other

\* C16: intersection_over_union aborts exactly when both rectangles have
\* zero area; when one has positive area it returns a value, and the value
\* is 0 when the other has zero area.
C16_DegenerateUnion ==
    bb_pc = "measured" =>
        /\ bb_measure.iou.panic <=>
              (bb_measure.area_self = 0 /\ bb_measure.area_other = 0)
        /\ bb_measure.iou_rev.panic <=>
              (bb_measure.area_self = 0 /\ bb_measure.area_other = 0)
        /\ (~bb_measure.iou.panic
                /\ (bb_measure.area_self = 0 \/ bb_measure.area_other = 0)) =>
              (bb_measure.iou.num = 0 /\ bb_measure.iou_rev.num = 0
                  /\ bb_measure.iou.den > 0 /\ bb_measure.iou_rev.den > 0)

\* C16 witness: a zero-area rectangle (a vertical segment) strictly inside
\* a rectangle of positive area; the IoU is 0.
C16_Witness ==
    /\ bb_pc = "measured"
    /\ bb_measure.area_self = 0 /\ bb_measure.area_other > 0
    /\ bb_rect[1].left = bb_rect[1].right /\ bb_rect[1].top < bb_rect[1].bottom
    /\ bb_other[1].left < bb_rect[1].left /\ bb_rect[1].right < bb_other[1].right
    /\ bb_other[1].top <= bb_rect[1].top /\ bb_rect[1].bottom <= bb_other[1].bottom
    /\ ~bb_measure.iou.panic /\ bb_measure.iou.num = 0

(***************************************************************************)
(* Claims about Point.                                                     *)
(***************************************************************************)

\* The two coordinates are the same number: equal magnitudes, and equal
\* signs unless both are zero.
SameNumber(v, w) == v.abs = w.abs /\ (v.abs # 0 => v.sign = w.sign)

\* C17 (as claimed): equality takes +0 and -0 for equal, and two Points that
\* are equal have the same hash; so Points that differ only in the sign of
\* a zero coordinate are equal and hash alike.
C17_EqImpliesSameHash ==
    pt_pc = "hashed" =>
        /\ pt_eq[1] <=> (SameNumber(pt_a.x, pt_b.x) /\ SameNumber(pt_a.y, pt_b.y))
        /\ pt_eq[1] => pt_hash[1] = pt_hash[2]

(***************************************************************************)
(* Claims about CoherentPointDriftTransform::register.                     *)
(***************************************************************************)

\* C18: register ends (it returns, or aborts in the solver); the loop body
\* has run at most max_iterations times, each run started with
\* iteration < max_iterations and change_in_variance > tolerance, and with
\* max_iterations = 0 it never runs.
C18_Termination ==
    /\ <>(cpd_pc \in {"returned", "panic"})
    /\ [](cpd_iteration <= cpd_max_iterations)
    /\ [](cpd_max_iterations = 0 => cpd_iteration = 0)
    /\ [][cpd_iteration' # cpd_iteration =>
            /\ cpd_iteration' = cpd_iteration + 1
            /\ cpd_iteration < cpd_max_iterations
            /\ cpd_change_in_variance # NaN /\ cpd_tolerance # NaN
            /\ cpd_change_in_variance > cpd_tolerance]_vars

\* C18 witness: register returned after max_iterations >= 2 runs of the
\* body, the change still above the tolerance.
C18_Witness ==
    /\ cpd_pc = "returned"
    /\ cpd_max_iterations >= 2
    /\ cpd_iteration = cpd_max_iterations
    /\ cpd_change_in_variance # NaN /\ cpd_tolerance # NaN
    /\ cpd_change_in_variance > cpd_tolerance

(***************************************************************************)
(* Claims about generate_matching.                                         *)
(***************************************************************************)

\* No source index and no target index occurs twice in the matching.
IsOneToOne(matching) ==
    \A i, j \in 1..Len(matching) :
        i # j => (matching[i][1] # matching[j][1] /\ matching[i][2] # matching[j][2])

\* C19: for every probability matrix (ties, zeros and NaN included) the
\* matching holds each row index at most once, each column index at most
\* once, and only index pairs of the matrix.
C19_MatchingOneToOne ==
    gm_pc = "matched" =>
        /\ IsOneToOne(gm_matching)
        /\ \A i \in 1..Len(gm_matching) :
              gm_matching[i] \in MatrixIndices(gm_probability.rows, gm_probability.cols)

\* C19 witness: a matrix of two rows and two columns whose entries are all
\* equal; two pairs are returned.
C19_Witness ==
    /\ gm_pc = "matched"
    /\ gm_probability.rows = 2 /\ gm_probability.cols = 2
    /\ \A q \in MatrixIndices(2, 2) : gm_probability.at[q] = 0
    /\ Len(gm_matching) = 2

(***************************************************************************)
(* Claims about filter_detections_with_cpd.                                *)
(***************************************************************************)

\* Detection i (counted from 1) is matched to a centroid of its own name.
MatchedToOwnName(i) ==
    \E m \in 1..Len(flt_matches) :
        /\ flt_matches[m][1] = i - 1
        /\ flt_detections[i].annotation.category = flt_pairs[flt_matches[m][2] + 1]

\* C20: the result holds detection i exactly when the matching has a pair
\* (i, k) and the category of detection i is the name of centroid k; a
\* kept detection is there once, and as it was given.
C20_FilterAndAssign ==
    flt_pc = "done" =>
        /\ \A i \in 1..Len(flt_detections) :
              Cardinality({j \in 1..Len(flt_result.dets) : flt_result.dets[j].pos = i})
                  = IF MatchedToOwnName(i) THEN 1 ELSE 0
        /\ \A j \in 1..Len(flt_result.dets) :
              /\ flt_result.dets[j].pos \in 1..Len(flt_detections)
              /\ flt_result.dets[j] = flt_detections[flt_result.dets[j].pos]

\* C20 witness: two detections of category "a", both matched, one to the
\* centroid "a" and one to the centroid "c"; only the first is returned.
C20_Witness ==
    /\ flt_pc = "done"
    /\ Len(flt_detections) = 2
    /\ \A i \in 1..2 : flt_detections[i].annotation.category = "a"
    /\ Len(flt_matches) = 2
    /\ Len(flt_result.dets) = 1


(***************************************************************************)
(* Claims about the rebasing of tile_and_predict.                          *)
(***************************************************************************)

\* The tile the last inference was run on, as the call was made.
LastInference(calls) == calls[Len(calls)]

\* C24: for every detection the detector returns on tile (r, c), with
\* stride s = tile_size * numerator / denominator, the rebasing adds c * s
\* to left and right and r * s to top and bottom and changes nothing else:
\* width, height, category and confidence are kept, the detections pushed
\* before are kept, and the detections of tile (0, 0) are unchanged.
C24_TileRebasing ==
    [][run_inferred' = run_inferred + 1 =>
        LET call == LastInference(run_calls')
            preds == run_inference(run_detector, run_tile_size)
            n == Len(run_detections)
        IN  /\ call.fn = "run_inference"
            /\ Len(run_detections') = n + Len(preds)
            /\ \A i \in 1..n : run_detections'[i] = run_detections[i]
            /\ \E s \in 0..run_tile_size :
                  /\ s * run_proportion[2] = run_tile_size * run_proportion[1]
                  /\ \A i \in 1..Len(preds) :
                        LET before == preds[i].annotation
                            after == run_detections'[n + i].annotation
                        IN  /\ after.left = before.left + call.col_ix * s
                            /\ after.right = before.right + call.col_ix * s
                            /\ after.top = before.top + call.row_ix * s
                            /\ after.bottom = before.bottom + call.row_ix * s
                            /\ after.right - after.left = before.right - before.left
                            /\ after.bottom - after.top = before.bottom - before.top
                            /\ after.category = before.category
                            /\ run_detections'[n + i].confidence = preds[i].confidence
                            /\ (call.row_ix = 0 /\ call.col_ix = 0) => after = before
    ]_vars

\* A detection of a tile that is neither in the first row nor in the first
\* column has been rebased.
C24_Witness ==
    /\ run_pc = "infer"
    /\ run_calls # <<>>
    /\ LastInference(run_calls).fn = "run_inference"
    /\ LastInference(run_calls).row_ix >= 1
    /\ LastInference(run_calls).col_ix >= 1
    /\ run_detections # <<>>
    /\ run_detections[Len(run_detections)].annotation.left >= 1
    /\ run_detections[Len(run_detections)].annotation.top >= 1


\* (row, col) comes strictly before (row', col') in row-major order.
RowMajorBefore(a, b) ==
    a.row_ix < b.row_ix \/ (a.row_ix = b.row_ix /\ a.col_ix < b.col_ix)

\* The calls of the log that are inferences.
InferenceCalls == {k \in 1..Len(run_calls) : run_calls[k].fn = "run_inference"}
SuppressionCalls == {k \in 1..Len(run_calls) : run_calls[k].fn = "non_maximum_suppression"}

\* C25: in a call of tile_and_predict that returns, the detector has been
\* run exactly once on every tile of the grid tile_image returned, in
\* row-major order; non_maximum_suppression has been called exactly once,
\* after the inference on the last tile, on the rebased detections in the
\* order of the inferences.  Before the call returns, suppression is never
\* called while a tile is still to be inferred.
C25_CallOrder ==
    /\ SuppressionCalls # {} => run_inferred = RunTileCount
    /\ run_pc = "done" =>
          LET grid == {[row_ix |-> r, col_ix |-> c] :
                          r \in 0..(Len(run_tiles) - 1),
                          c \in 0..(Len(run_tiles[1]) - 1)}
              per_tile == Len(run_inference(run_detector, run_tile_size))
          IN  /\ Cardinality(InferenceCalls) = Cardinality(grid)
              /\ \A g \in grid :
                    Cardinality({k \in InferenceCalls :
                                    run_calls[k].row_ix = g.row_ix
                                    /\ run_calls[k].col_ix = g.col_ix}) = 1
              /\ \A k, l \in InferenceCalls :
                    k < l => RowMajorBefore(run_calls[k], run_calls[l])
              /\ SuppressionCalls = {Len(run_calls)}
              /\ LET given == run_calls[Len(run_calls)].detections
                 IN  /\ Len(given) = per_tile * Cardinality(grid)
                     /\ \A i, j \in 1..Len(given) :
                           (i < j /\ per_tile = 1) =>
                              RowMajorBefore(
                                 [row_ix |-> given[i].annotation.top,
                                  col_ix |-> given[i].annotation.left],
                                 [row_ix |-> given[j].annotation.top,
                                  col_ix |-> given[j].annotation.left])

\* A call over a grid of at least two rows and two columns has returned,
\* with a detection on every tile.
C25_Witness ==
    /\ run_pc = "done"
    /\ Len(run_tiles) >= 2
    /\ Len(run_tiles[1]) >= 2
    /\ run_detector = "corner"
    /\ Cardinality(InferenceCalls) >= 4


(***************************************************************************)
(* Claims about the output of non_maximum_suppression.                     *)
(***************************************************************************)

\* No two detections of dets have the same category and an IoU that is
\* undefined or above th.
ConflictFree(dets, th) ==
    \A i, j \in 1..Len(dets) :
        (i # j /\ dets[i].annotation.category = dets[j].annotation.category) =>
            LET iou == intersection_over_union(dets[i].annotation, dets[j].annotation)
            IN  ~iou.panic /\ ~IouExceeds(iou, th)

\* C28: in the sequence returned by non_maximum_suppression(D, th) no two
\* detections of the same category have IoU > th, on every input on which
\* the call returns (the first call and the call on its output).
C28_OutputConflictFree ==
    /\ (nms_pc # "input" /\ nms_result.status = "ok") =>
          ConflictFree(nms_result.dets, nms_threshold)
    /\ (nms_pc = "recalled" /\ nms_again.status = "ok") =>
          ConflictFree(nms_again.dets, nms_threshold)

\* The call returned two detections of one category and dropped a third of
\* that category.
C28_Witness ==
    /\ nms_pc = "called" /\ nms_result.status = "ok"
    /\ Len(nms_input) = 3
    /\ Len(nms_result.dets) = 2
    /\ \A i \in 1..3 : nms_input[i].annotation.category = "a"
    /\ ~ConflictFree(nms_input, nms_threshold)


(***************************************************************************)
(* Claims about the coverage of the tiling.                                *)
(***************************************************************************)

\* The element (row, col) of axes 2 and 3 lies in the view `tile`.
TileCovers(tile, row, col) ==
    /\ tile.start_row <= row /\ row < tile.end_row
    /\ tile.start_col <= col /\ col < tile.end_col

\* C29: for an image, a tile_size and an overlap ratio (numerator below
\* denominator) that pass validate_tiling_parameters, every pixel of the
\* image lies in at least one tile of the grid tile_image returns: no row
\* and no column is left uncovered between two tiles or at the right or
\* bottom edge.
C29_TileCoverage ==
    (tl_pc = "tiled" /\ tl_tiles.status = "ok") =>
        /\ validate_tiling_parameters(tl_proportion, tl_tile_size,
                                      tl_shape.d2, tl_shape.d3).kind = "None"
        /\ \A row \in 0..(tl_shape.d2 - 1), col \in 0..(tl_shape.d3 - 1) :
              \E r \in 1..Len(tl_tiles.tiles) :
                 \E c \in 1..Len(tl_tiles.tiles[r]) :
                    TileCovers(tl_tiles.tiles[r][c], row, col)

\* A grid of at least three rows and columns of overlapping tiles has been
\* returned.
C29_Witness ==
    /\ tl_pc = "tiled" /\ tl_tiles.status = "ok"
    /\ Len(tl_tiles.tiles) >= 3
    /\ Len(tl_tiles.tiles[1]) >= 3
    /\ tl_tiles.tiles[1][2].start_col < tl_tiles.tiles[1][1].end_col


(***************************************************************************)
(* Claims about the totality of the validation.                            *)
(***************************************************************************)

TilingErrorKinds ==
    {"InvalidTileSize", "IncompatibleProportionWithTileSize", "UnevenImageDivision"}

\* C23 (as claimed): for every tile_size (0 included), width, height and
\* ratio with 0 < numerator < denominator, validate_tiling_parameters
\* returns one of the three TilingErrors or success: it never aborts on a
\* division or remainder by a zero stride.
C23_ValidationTotal ==
    tl_pc = "validated" => tl_validation.kind \in TilingErrorKinds \cup {"None"}


(***************************************************************************)
(* Claims about the variance of the registration.                          *)
(***************************************************************************)

\* C27 (as claimed): in every state of a registration, after construction
\* and after every M-step, the variance is at least tolerance / 10 and is
\* positive.
C27_VarianceInvariant ==
    cpd_pc \in {"new", "loop", "returned"} =>
        /\ FLe(FDiv10(cpd_tolerance), cpd_variance)
        /\ FGt(cpd_variance, 0)

\* The part of C27 that holds, for a tolerance that is a positive number:
\* after an M-step the variance is positive, and a variance below
\* tolerance / 10 comes only from construction or from a quotient that is
\* positive (or not a number) and so not clamped.
C27_ClampOnlyNonPositive ==
    [][(cpd_iteration' = cpd_iteration + 1 /\ FGt(cpd_tolerance, 0)) =>
          /\ cpd_variance' = NaN \/ cpd_variance' > 0
          /\ cpd_change_in_variance' = FAbsDiff(cpd_variance', cpd_variance)
      ]_vars


(***************************************************************************)
(* Claims about the greedy extraction of the matching.                     *)
(***************************************************************************)

\* The rows and the columns used by the first k pairs of a matching.
RowsUsed(matching, k) == {matching[l][1] : l \in 1..k}
ColsUsed(matching, k) == {matching[l][2] : l \in 1..k}

\* The k-th pair has an unused row and column, and no entry with an unused
\* row and column is greater than its entry.
IsGreedyPick(matrix, matching, k) ==
    LET free == {ix \in MatrixIndices(matrix.rows, matrix.cols) :
                    /\ ix[1] \notin RowsUsed(matching, k - 1)
                    /\ ix[2] \notin ColsUsed(matching, k - 1)}
    IN  /\ matching[k] \in free
        /\ \A ix \in free : ~FGt(matrix.at[ix], matrix.at[matching[k]])

\* The entries of the pairs never go up along the matching.
IsNonIncreasing(matrix, matching) ==
    \A k \in 1..(Len(matching) - 1) :
        ~FGt(matrix.at[matching[k + 1]], matrix.at[matching[k]])

\* C26 (as claimed): generate_matching emits, one after the other, a pair
\* (i, j) whose P_ij is maximal among the entries whose row and column are
\* unused, until no unused row or no unused column remains; it emits
\* exactly min(M, N) pairs and the P values of the pairs are non-increasing
\* in the order returned.
C26_GreedyMatching ==
    gm_pc = "matched" =>
        /\ Len(gm_matching) = Min2(gm_probability.rows, gm_probability.cols)
        /\ \A k \in 1..Len(gm_matching) : IsGreedyPick(gm_probability, gm_matching, k)
        /\ IsNonIncreasing(gm_probability, gm_matching)

\* The same statement for the matrices all of whose entries are numbers.
C26_GreedyMatchingOfNumbers ==
    (\A ix \in DOMAIN gm_probability.at : gm_probability.at[ix] # NaN) =>
        C26_GreedyMatching


(***************************************************************************)
(* Claims about the keypoint of a rebased detection.                       *)
(***************************************************************************)

\* The keypoint's offset from the (left, top) corner of its rectangle.
KeypointOffset(a) == <<a.keypoint.x - a.left, a.keypoint.y - a.top>>

\* C30 (as claimed): for a keypoint-rectangle detection produced on a tile,
\* after the rebasing of tile_and_predict the keypoint is in the frame of
\* the box: its offset from the box's (left, top) corner is the one it had
\* in the detector's output for the tile.
C30_KeypointRebased ==
    run_detector = "keypoint" =>
        \A i \in 1..Len(run_detections) :
            \E k \in 1..Len(run_inference(run_detector, run_tile_size)) :
                KeypointOffset(run_detections[i].annotation)
                    = KeypointOffset(run_inference(run_detector, run_tile_size)[k].annotation)


(***************************************************************************)
(* Claims about the thin-plate-spline transform.                           *)
(***************************************************************************)

\* The corners of a rectangle after transform_point.
TransportedCorners(bbox) ==
    {transform_point(tps_source, tps_destination, tps_w_matrix, Pt(x, y)) :
        x \in {bbox.left, bbox.right}, y \in {bbox.top, bbox.bottom}}

\* The least and the greatest of a set of fractions.
FracMinOf(fs) == CHOOSE a \in fs : \A b \in fs : FracLe(a, b)
FracMaxOf(fs) == CHOOSE a \in fs : \A b \in fs : FracLe(b, a)

\* C21 (as claimed): transform_bounding_box(b) returns the rectangle
\* (min x, min y, max x, max y) over the four corners of b mapped by
\* transform_point, with b's category; transform_bounding_box_with_keypoint
\* does the same and replaces the keypoint by transform_point(keypoint).
C21_RectangleTransport ==
    (tps_call.fn \in {"transform_bounding_box", "transform_bounding_box_with_keypoint"}
        /\ tps_result.ok) =>
        LET corners == TransportedCorners(tps_call.bbox)
            xs == {q.x : q \in corners}
            ys == {q.y : q \in corners}
        IN  /\ Frac(tps_result.box.left, 1) = FracMinOf(xs)
            /\ Frac(tps_result.box.top, 1) = FracMinOf(ys)
            /\ Frac(tps_result.box.right, 1) = FracMaxOf(xs)
            /\ Frac(tps_result.box.bottom, 1) = FracMaxOf(ys)
            /\ tps_result.box.category = tps_call.bbox.category
            /\ tps_call.fn = "transform_bounding_box_with_keypoint" =>
                  tps_result.box.keypoint =
                      transform_point(tps_source, tps_destination, tps_w_matrix,
                                      tps_call.bbox.keypoint)

\* What holds of the two functions: the category is kept and the keypoint
\* is transported.
TpsCategoryAndKeypoint ==
    (tps_call.fn \in {"transform_bounding_box", "transform_bounding_box_with_keypoint"}
        /\ tps_result.ok) =>
        /\ tps_result.box.category = tps_call.bbox.category
        /\ tps_call.fn = "transform_bounding_box_with_keypoint" =>
              tps_result.box.keypoint =
                  transform_point(tps_source, tps_destination, tps_w_matrix,
                                  tps_call.bbox.keypoint)

\* A point with whole-number coordinates, as transform_point returns it.
AsFracPoint(p) == [x |-> Frac(p.x, 1), y |-> Frac(p.y, 1)]

\* C22: for a transform built from K >= 3 correspondences (s_k, d_k), the
\* kernel vector transform_point builds for s_k is row k of the matrix L
\* that was solved, and transform_point(s_k) = d_k (exactly here, so within
\* 10^-4) in both coordinates, for every k.
C22_Interpolation ==
    tps_pc = "built" =>
        /\ Len(tps_source) >= 3
        /\ \A k \in 1..Len(tps_source) :
              /\ kernel_vec(tps_source, tps_destination, tps_source[k])
                    = create_l_matrix(tps_source, tps_destination).m[k]
              /\ transform_point(tps_source, tps_destination, tps_w_matrix,
                                 tps_source[k])
                    = AsFracPoint(tps_destination[k])
              /\ (tps_call.fn = "transform_point" /\ tps_call.p = tps_source[k]) =>
                    tps_result.point = AsFracPoint(tps_destination[k])

\* transform_point has been called on a source point that its
\* correspondence moves, on a transform of four correspondences that is
\* not affine (a kernel weight is not 0).
C22_Witness ==
    /\ tps_pc = "built"
    /\ Len(tps_source) = 4
    /\ \E j \in 1..4 : tps_w_matrix.num[j][1] # 0
    /\ tps_call.fn = "transform_point"
    /\ tps_call.p = tps_source[4]
    /\ tps_destination[4] # tps_source[4]
    /\ tps_result.point = AsFracPoint(tps_destination[4])

====
